---------------------------- MODULE Spec2Model ----------------------------
(***************************************************************************)
(* Worker loop of the media processor (src/src/main.rs): poll the store,   *)
(* classify every unprocessed concept, run its pipeline, commit            *)
(* (processed = true) and remove or move the raw upload.                   *)
(*                                                                         *)
(* The store (media_concepts rows) and the upload directory are state; the *)
(* results of external processes, of the database and of the file system   *)
(* are nondeterministic choices made at the step that observes them.       *)
(***************************************************************************)
EXTENDS Integers, FiniteSets, Sequences, TLC

\* Number of rows of media_concepts in the model.
NumConcepts == 2

Concepts == 1..NumConcepts

\* The four types process() dispatches on.
PipelineTypes == {"video", "picture", "audio", "document_pdf"}

\* Values of the type column used by the model ("other" stands for any string
\* that is none of the four dispatched types).
DeclaredTypes == PipelineTypes \cup {"other"}

\* Results of detect_file_type: Some(t) or None.
DetectResults == PipelineTypes \cup {"none"}

\* Tasks and futures that a pipeline joins.
VideoAudioArms == {"subtitle", "chapter", "transcode"}

PictureArms == {"picture_avif", "thumbnail_avif", "thumbnail_jpg"}

PdfArms == {"pdf_thumbnails", "pdf_text"}

Arms == VideoAudioArms \cup PictureArms \cup PdfArms

\* An arm that has been started and has not yet produced its output.  The
\* video transcode future moves through open, plan, ladder and dash.
Running == {"running", "open", "plan", "ladder", "dash"}

Finished == {"ok", "failed", "panicked"}

ArmStates == {"idle"} \cup Running \cup Finished

VARIABLES
  processed,   \* store: processed column of every row
  raw,         \* file system: upload/<id> exists
  procdir,     \* file system: upload/<id>_processing exists
  docpdf,      \* file system: upload/<id>_processing/document.pdf exists
  settings,    \* config: the selected encoder has its settings block
  pc,          \* position of process()
  batch,       \* rows of the current poll not yet handled
  cur,         \* concept being handled
  actual,      \* actual_type of the concept being handled
  arm,         \* state of every arm of the running pipeline
  hist,        \* what happened so far to the concept being handled
  giveup,      \* per concept: marked processed by a terminal give-up
  ladder,      \* locals of the resolution-ladder loop of transcode_video
  chunks,      \* locals of compute_split_points and the chunk boundaries
  mpd,         \* audio_info, manifest and result of post_process_dash_manifest
  ts,          \* a timestamp through parse_vtt_timestamp and format_vtt_timestamp
  whisper,     \* chunk extraction, transcription and merge of generate_whisper_vtt
  dash,        \* ladder transcodes and DASH inputs of transcode_video
  detect,      \* probe results and verdict of detect_file_type
  silence,     \* windows and threads of detect_silence_near_splits
  sprite,      \* post-processing tasks, sprite tasks and cues of transcode_video
  translate,   \* source, requests and output of translate_subtitle_file
  subs,        \* streams, names, files and list of extract_subtitles_to_vtt
  encode,      \* frame rate, encoder parameters and ladder commands of transcode_video
  paths        \* arms and tasks of one concept running side by side

vars == <<processed, raw, procdir, docpdf, settings, pc, batch, cur, actual,
          arm, hist, giveup, ladder, chunks, mpd, ts, whisper, dash,
          detect, silence,
          sprite,
          translate,
          subs,
          encode,
          paths>>

\* The state of the worker loop.
worker == <<processed, raw, procdir, docpdf, settings, pc, batch, cur, actual,
            arm, hist, giveup>>

\* The locals of the functions that are run on their own inputs.
pure == <<ladder, chunks, mpd, ts, whisper, dash, detect, silence,
          sprite,
          translate,
          subs,
          encode,
          paths>>

\* A function that has not been called.
NotCalled == [phase |-> "idle"]

\* Nothing has happened yet to the concept being handled.
NoHist == [path |-> "none", classified |-> FALSE, detected |-> "none",
           declared |-> "unread", created |-> FALSE, sidefail |-> FALSE,
           mandatory |-> "none", issued |-> FALSE, result |-> "none"]

IdleArms == [a \in Arms |-> "idle"]

----------------------------------------------------------------------------
\* State after main() connected to the store: every row is unprocessed, its
\* upload exists or not, and nothing has been handled.  The type column of a
\* row and the classifier's result for its file are inputs, drawn where
\* process() reads them.
Init ==
  /\ processed = [c \in Concepts |-> FALSE]
  /\ raw \in [Concepts -> BOOLEAN]
  /\ procdir = [c \in Concepts |-> FALSE]
  /\ docpdf = [c \in Concepts |-> FALSE]
  /\ settings \in BOOLEAN
  /\ pc = "tick"
  /\ batch = {}
  /\ cur = 0
  /\ actual = "none"
  /\ arm = IdleArms
  /\ hist = NoHist
  /\ giveup = [c \in Concepts |-> FALSE]
  /\ ladder = NotCalled
  /\ chunks = NotCalled
  /\ mpd = NotCalled
  /\ ts = NotCalled
  /\ whisper = NotCalled
  /\ dash = NotCalled
  /\ detect = NotCalled
  /\ silence = NotCalled
  /\ sprite = NotCalled
  /\ translate = NotCalled
  /\ subs = NotCalled
  /\ encode = NotCalled
  /\ paths = NotCalled

----------------------------------------------------------------------------
\* Variant of the poll query without its WHERE clause.
UnprocessedAllRows == Concepts

\* SELECT id,type FROM media_concepts WHERE processed = false
Unprocessed == {c \in Concepts : ~processed[c]}

\* let actual_type = if let Some(dt) = detected_type { dt } else { concept.type }
ActualType(detected, declared) ==
  IF detected # "none" THEN detected ELSE declared

\* Variant of the chain without its document_pdf branch.
HasPipelineNoPdf(t) == t \in {"video", "picture", "audio"}

\* The if / else-if chain of process(): one branch per pipeline type, the
\* final else is the unknown-type give-up.
HasPipeline(t) == t \in PipelineTypes

\* Arms started by the pipeline of type t, in their first state.
StartArms(t) ==
  [a \in Arms |->
     IF t = "video" /\ a = "transcode" THEN "open"
     ELSE IF t \in {"video", "audio"} /\ a \in VideoAudioArms THEN "running"
     ELSE IF t = "picture" /\ a \in PictureArms THEN "running"
     ELSE IF t = "document_pdf" /\ a \in PdfArms THEN "running"
     ELSE "idle"]

\* What an awaited join leaves behind: the finished arms are consumed.
Consume(f) == [a \in Arms |-> IF f[a] \in Finished THEN "idle" ELSE f[a]]

----------------------------------------------------------------------------
\* interval.tick().await at the head of the loop.
Tick ==
  /\ pc = "tick"
  /\ pc' = "poll"
  /\ UNCHANGED pure
  /\ UNCHANGED <<processed, raw, procdir, docpdf, settings,
                 batch, cur, actual, arm, hist, giveup>>

\* The poll query succeeded: the batch is the set of unprocessed rows.
PollOk ==
  /\ pc = "poll"
  /\ batch' = Unprocessed
  /\ hist' = NoHist
  /\ cur' = 0
  /\ pc' = "loop"
  /\ UNCHANGED pure
  /\ UNCHANGED <<processed, raw, procdir, docpdf, settings,
                 actual, arm, giveup>>

\* The poll query failed: log, then sleep 5 s.
PollErr ==
  /\ pc = "poll"
  /\ pc' = "backoff"
  /\ UNCHANGED pure
  /\ UNCHANGED <<processed, raw, procdir, docpdf, settings,
                 batch, cur, actual, arm, hist, giveup>>

\* Variant of the error branch that leaves the loop after the sleep.
BackoffBreaks ==
  /\ pc = "backoff"
  /\ pc' = "panicked"
  /\ UNCHANGED pure
  /\ UNCHANGED <<processed, raw, procdir, docpdf, settings,
                 batch, cur, actual, arm, hist, giveup>>

\* The backoff sleep is over: continue with the next loop iteration.
Backoff ==
  /\ pc = "backoff"
  /\ pc' = "tick"
  /\ UNCHANGED pure
  /\ UNCHANGED <<processed, raw, procdir, docpdf, settings,
                 batch, cur, actual, arm, hist, giveup>>

\* The for loop over the batch is exhausted.
LoopEnd ==
  /\ pc = "loop"
  /\ batch = {}
  /\ pc' = "tick"
  /\ UNCHANGED pure
  /\ UNCHANGED <<processed, raw, procdir, docpdf, settings,
                 batch, cur, actual, arm, hist, giveup>>

\* Variant of the missing-file branch that continues without the update.
HandleMissingNoUpdate(c) ==
  /\ pc = "loop"
  /\ c \in batch
  /\ ~raw[c]
  /\ batch' = batch \ {c}
  /\ cur' = c
  /\ hist' = [NoHist EXCEPT !.path = "missing", !.result = "giveup"]
  /\ pc' = "loop"
  /\ UNCHANGED pure
  /\ UNCHANGED <<processed, raw, procdir, docpdf, settings, actual, arm,
                 giveup>>

\* upload/<id> does not exist: go to the give-up update.
HandleMissing(c) ==
  /\ pc = "loop"
  /\ c \in batch
  /\ ~raw[c]
  /\ batch' = batch \ {c}
  /\ cur' = c
  /\ hist' = [NoHist EXCEPT !.path = "missing"]
  /\ pc' = "giveup_update"
  /\ UNCHANGED pure
  /\ UNCHANGED <<processed, raw, procdir, docpdf, settings, actual, arm,
                 giveup>>

\* What the handling of a classified file starts from: the classifier's
\* result, and the declared type when process() falls back to it.
Classified(detected, declared) ==
  [NoHist EXCEPT !.classified = TRUE,
                 !.detected = detected,
                 !.declared = IF detected = "none" THEN declared ELSE "unread"]

\* The file exists, and neither the classifier nor the declared type names a
\* pipeline: go to the give-up update.
DispatchUnknown(c, detected, declared) ==
  /\ pc = "loop"
  /\ c \in batch
  /\ raw[c]
  /\ ~HasPipeline(ActualType(detected, declared))
  /\ batch' = batch \ {c}
  /\ cur' = c
  /\ actual' = ActualType(detected, declared)
  /\ hist' = [Classified(detected, declared) EXCEPT !.path = "unknown"]
  /\ pc' = "giveup_update"
  /\ UNCHANGED pure
  /\ UNCHANGED <<processed, raw, procdir, docpdf, settings, arm, giveup>>

\* UPDATE ... SET processed = true of the two give-up branches; an error is
\* logged and the loop continues.
GiveupUpdate ==
  /\ pc = "giveup_update"
  /\ \E ok \in BOOLEAN :
       /\ processed' = [processed EXCEPT ![cur] = @ \/ ok]
       /\ giveup' = [giveup EXCEPT ![cur] = @ \/ ok]
  /\ hist' = [hist EXCEPT !.issued = TRUE, !.result = "giveup"]
  /\ pc' = "loop"
  /\ UNCHANGED pure
  /\ UNCHANGED <<raw, procdir, docpdf, settings, batch, cur,
                 actual, arm>>

\* The file exists and actual_type names a pipeline: the pipeline creates
\* <id>_processing and starts its arms, or fails before starting any
\* (create_dir_all failed; for a picture also: the probe could not be run).
DispatchPipeline(c, detected, declared) ==
  /\ pc = "loop"
  /\ c \in batch
  /\ raw[c]
  /\ HasPipeline(ActualType(detected, declared))
  /\ batch' = batch \ {c}
  /\ cur' = c
  /\ actual' = ActualType(detected, declared)
  /\ \E mkdir \in BOOLEAN, probe \in BOOLEAN :
       /\ actual' # "picture" => probe
       /\ procdir' = [procdir EXCEPT ![c] = @ \/ mkdir]
       /\ IF mkdir /\ probe
            THEN /\ arm' = StartArms(actual')
                 /\ hist' = [Classified(detected, declared) EXCEPT
                               !.path = actual', !.created = TRUE]
                 /\ pc' = "join"
            ELSE /\ arm' = arm
                 /\ hist' = [Classified(detected, declared) EXCEPT
                               !.path = actual',
                               !.created = mkdir,
                               !.mandatory = IF mkdir THEN "failed" ELSE "none",
                               !.result = "err"]
                 /\ pc' = "loop"
  /\ UNCHANGED pure
  /\ UNCHANGED <<processed, raw, docpdf, settings, giveup>>

----------------------------------------------------------------------------
\* Ways an arm can end.  A spawn_blocking closure returns (after succeeding
\* or after an internal failure) or panics, which its JoinHandle reports as
\* a JoinError; transcode_audio is a future polled by the join itself and
\* returns Ok or Err.
ArmOutcomes(a) ==
  IF a = "transcode" THEN {"ok", "failed"} ELSE {"ok", "failed", "panicked"}

\* A running arm ends (any arm but the video transcode, which has phases).
ArmFinish(a) ==
  /\ arm[a] = "running"
  /\ \E o \in ArmOutcomes(a) : arm' = [arm EXCEPT ![a] = o]
  /\ UNCHANGED pure
  /\ UNCHANGED <<processed, raw, procdir, docpdf, settings,
                 pc, batch, cur, actual, hist, giveup>>

\* transcode_video up to the ladder: ffmpeg init, open the input, find the
\* video stream and its decoder, reject zero dimensions.  Any of these
\* returns Err.
TranscodeOpen ==
  /\ arm["transcode"] = "open"
  /\ \E o \in {"plan", "failed"} : arm' = [arm EXCEPT !["transcode"] = o]
  /\ UNCHANGED pure
  /\ UNCHANGED <<processed, raw, procdir, docpdf, settings,
                 pc, batch, cur, actual, hist, giveup>>

\* build_encoder_params: expect() on the settings block of the selected
\* encoder.  transcode_video runs on the task of process(), so the panic
\* unwinds through process_video, process and main.
TranscodePlan ==
  /\ arm["transcode"] = "plan"
  /\ pc = "join"
  /\ IF settings
       THEN /\ arm' = [arm EXCEPT !["transcode"] = "ladder"]
            /\ pc' = pc
       ELSE /\ arm' = [arm EXCEPT !["transcode"] = "panicked"]
            /\ pc' = "panicked"
  /\ UNCHANGED pure
  /\ UNCHANGED <<processed, raw, procdir, docpdf, settings,
                 batch, cur, actual, hist, giveup>>

\* The ladder steps were spawned and awaited; Err when no output_<label>.webm
\* exists afterwards.
TranscodeLadder ==
  /\ arm["transcode"] = "ladder"
  /\ \E o \in {"dash", "failed"} : arm' = [arm EXCEPT !["transcode"] = o]
  /\ UNCHANGED pure
  /\ UNCHANGED <<processed, raw, procdir, docpdf, settings,
                 pc, batch, cur, actual, hist, giveup>>

\* DASH assembly and the preview stage: Err when the video directory cannot
\* be created, the DASH command fails or the previews directory cannot be
\* created; Ok after all preview tasks were awaited.
TranscodeDash ==
  /\ arm["transcode"] = "dash"
  /\ \E o \in {"ok", "failed"} : arm' = [arm EXCEPT !["transcode"] = o]
  /\ UNCHANGED pure
  /\ UNCHANGED <<processed, raw, procdir, docpdf, settings,
                 pc, batch, cur, actual, hist, giveup>>

----------------------------------------------------------------------------
\* Variant that resolves as soon as the transcode future has ended.
VideoAudioJoinedTranscodeOnly == arm["transcode"] \in Finished

\* tokio::join! of process_video / process_audio resolves.
VideoAudioJoined == \A a \in VideoAudioArms : arm[a] \in Finished

\* tokio::join! of transcode_picture resolves.
PictureJoined == \A a \in PictureArms : arm[a] \in Finished

\* Variant that resolves as soon as the thumbnail task has ended.
PdfJoinedThumbnailOnly == arm["pdf_thumbnails"] \in Finished

\* tokio::join! of process_document_pdf resolves.
PdfJoined == \A a \in PdfArms : arm[a] \in Finished

\* Variant that commits whatever the transcode returned.
TranscodeCommitsAnyResult == arm["transcode"] \in Finished

\* Variant that also requires the subtitle and chapter arms to have succeeded.
TranscodeCommitsWithSideArms ==
  /\ arm["transcode"] = "ok"
  /\ \A a \in {"subtitle", "chapter"} : arm[a] = "ok"

\* match transcode_result { Ok(()) => commit, Err(e) => Err(..) }
TranscodeCommits == arm["transcode"] = "ok"

\* transcode_picture: r1, r2 and r3 must all be Ok(Ok(s)) with s.success().
PictureCommits == \A a \in PictureArms : arm[a] = "ok"

\* process_document_pdf: `?` on both JoinHandles, then `thumb_result?`.
PdfCommits ==
  /\ arm["pdf_thumbnails"] # "panicked"
  /\ arm["pdf_text"] # "panicked"
  /\ arm["pdf_thumbnails"] = "ok"

\* The mandatory step of the running pipeline succeeded.
MandatoryOk ==
  CASE actual \in {"video", "audio"} -> arm["transcode"] = "ok"
    [] actual = "picture" -> \A a \in PictureArms : arm[a] = "ok"
    [] actual = "document_pdf" -> arm["pdf_thumbnails"] = "ok"
    [] OTHER -> FALSE

\* The subtitle or the chapter arm of the running pipeline ended abnormally:
\* its (_, _) slot of the join holds a JoinError or the result of a closure
\* that gave up.
SideArmFailed ==
  \E a \in {"subtitle", "chapter"} : arm[a] \in {"failed", "panicked"}

\* What follows a resolved join: the commit, or Err back to process().
AfterJoin(commits) ==
  /\ arm' = Consume(arm)
  /\ hist' = [hist EXCEPT
                !.sidefail = SideArmFailed,
                !.mandatory = IF MandatoryOk THEN "ok" ELSE "failed",
                !.result = IF commits THEN @ ELSE "err"]
  /\ pc' = IF commits THEN "update" ELSE "loop"
  /\ UNCHANGED pure
  /\ UNCHANGED <<processed, raw, procdir, docpdf, settings,
                 batch, cur, actual, giveup>>

JoinVideoAudio ==
  /\ pc = "join"
  /\ actual \in {"video", "audio"}
  /\ VideoAudioJoined
  /\ AfterJoin(TranscodeCommits)

JoinPicture ==
  /\ pc = "join"
  /\ actual = "picture"
  /\ PictureJoined
  /\ AfterJoin(PictureCommits)

JoinPdf ==
  /\ pc = "join"
  /\ actual = "document_pdf"
  /\ PdfJoined
  /\ AfterJoin(PdfCommits)

\* Variant of the commit that drops the result of the update and goes on to
\* the removal of the upload.
UpdateResultDropped ==
  /\ pc = "update"
  /\ \E ok \in BOOLEAN :
       /\ processed' = [processed EXCEPT ![cur] = @ \/ ok]
       /\ hist' = [hist EXCEPT !.issued = TRUE,
                               !.result = IF ok THEN @ ELSE "err"]
       /\ pc' = IF actual = "document_pdf" THEN "rename" ELSE "remove"
  /\ UNCHANGED pure
  /\ UNCHANGED <<raw, procdir, docpdf, settings, batch, cur,
                 actual, arm, giveup>>

\* UPDATE media_concepts SET processed = true of a pipeline; `?` returns Err
\* when it fails.
Update ==
  /\ pc = "update"
  /\ \E ok \in BOOLEAN :
       /\ processed' = [processed EXCEPT ![cur] = @ \/ ok]
       /\ hist' = [hist EXCEPT !.issued = TRUE,
                               !.result = IF ok THEN @ ELSE "err"]
       /\ pc' = IF ~ok THEN "loop"
                ELSE IF actual = "document_pdf" THEN "rename" ELSE "remove"
  /\ UNCHANGED pure
  /\ UNCHANGED <<raw, procdir, docpdf, settings, batch, cur,
                 actual, arm, giveup>>

\* let _ = fs::remove_file("upload/<id>"): the result is dropped.
Remove ==
  /\ pc = "remove"
  /\ \E ok \in BOOLEAN : raw' = [raw EXCEPT ![cur] = @ /\ ~ok]
  /\ hist' = [hist EXCEPT !.result = "ok"]
  /\ pc' = "loop"
  /\ UNCHANGED pure
  /\ UNCHANGED <<processed, procdir, docpdf, settings, batch,
                 cur, actual, arm, giveup>>

\* Variant that copies the upload to document.pdf and leaves the original.
RenameCopies ==
  /\ pc = "rename"
  /\ \E ok \in BOOLEAN :
       /\ docpdf' = [docpdf EXCEPT ![cur] = @ \/ ok]
       /\ hist' = [hist EXCEPT !.result = IF ok THEN "ok" ELSE "err"]
  /\ pc' = "loop"
  /\ UNCHANGED pure
  /\ UNCHANGED <<processed, raw, procdir, settings, batch, cur,
                 actual, arm, giveup>>

\* fs::rename("upload/<id>", "upload/<id>_processing/document.pdf")?
Rename ==
  /\ pc = "rename"
  /\ \E ok \in BOOLEAN :
       /\ raw' = [raw EXCEPT ![cur] = @ /\ ~ok]
       /\ docpdf' = [docpdf EXCEPT ![cur] = @ \/ ok]
       /\ hist' = [hist EXCEPT !.result = IF ok THEN "ok" ELSE "err"]
  /\ pc' = "loop"
  /\ UNCHANGED pure
  /\ UNCHANGED <<processed, procdir, settings, batch, cur,
                 actual, arm, giveup>>

-----------------------------------------------------------------------------
\* The resolution ladder of transcode_video, run on its own inputs.

\* Largest source width and height drawn.
MaxDim == 8

\* Longest quality_steps list and largest max_resolution_steps drawn.
MaxSteps == 2

\* Largest min_dimension drawn.
MaxMinDim == 3

\* let epsilon = 0.01, as the denominator of 1/100.
EpsilonInverse == 100

\* scale_divisor values drawn for a quality step; 1/d and the products with
\* it are computed exactly by f32 for these values.
ScaleDivisors == {1, 2, 3}

\* threshold_2k_pixels values drawn.
PixelThresholds == {1, 30}

\* config.quality_steps, each step given by its scale_divisor.
QualityStepLists ==
  UNION {[1..n -> ScaleDivisors] : n \in 0..MaxSteps}

\* The inputs of the ladder loop: the probed size and the video config.
LadderInputs ==
  [original_width : 0..MaxDim, original_height : 0..MaxDim,
   quality_steps : QualityStepLists, max_resolution_steps : 0..MaxSteps,
   min_dimension : 1..MaxMinDim, threshold_2k_pixels : PixelThresholds]

\* x.max(y)
Max(x, y) == IF x >= y THEN x ELSE y

\* x.min(y)
Min(x, y) == IF x <= y THEN x ELSE y

\* (x - y).abs()
AbsDiff(x, y) == IF x >= y THEN x - y ELSE y - x

\* (n as f32 / d as f32).round(): nearest integer, halves away from zero.
RoundDiv(n, d) == (2 * n + d) \div (2 * d)

\* (n as f32 / q).round() where q is the f32 nearest to the quotient d of two
\* integers: at an exact half the rounding error of q decides the direction.
RoundDivInexact(n, d) ==
  IF (2 * n) % (2 * d) = d THEN {n \div d, n \div d + 1} ELSE {RoundDiv(n, d)}

\* (x / 2) * 2
SnapEven(x) == (x \div 2) * 2

\* Variant of the ratio test that accepts every candidate.
RatioWithinEpsilonAlways(w, h, ow, oh) == TRUE

\* (w as f32 / h as f32 - ow as f32 / oh as f32).abs() <= epsilon, with the
\* division by zero giving an infinity or a NaN that fails the test.
RatioWithinEpsilon(w, h, ow, oh) ==
  /\ h # 0
  /\ AbsDiff(w * oh, ow * h) * EpsilonInverse <= h * oh

\* outputs.iter().any(|(w, h, _)| *w == width && *h == height)
InOutputs(outputs, w, h) ==
  \E k \in 1..Len(outputs) : outputs[k].w = w /\ outputs[k].h = h

\* Variant of num_steps that never drops the top step.
NumStepsFull(in) == in.max_resolution_steps

\* num_steps: the full ladder at or above the pixel threshold, else one less.
NumSteps(in) ==
  IF in.original_width * in.original_height >= in.threshold_2k_pixels
  THEN in.max_resolution_steps
  ELSE Max(in.max_resolution_steps - 1, 0)

\* if num_steps >= config.max_resolution_steps: the 2K bonus is added to
\* audio_bitrate.
BonusAdded(in, num_steps) == num_steps >= in.max_resolution_steps

\* transcode_video is entered with some probed size and some config.
LadderInit ==
  /\ processed = [c \in Concepts |-> FALSE]
  /\ raw = [c \in Concepts |-> TRUE]
  /\ procdir = [c \in Concepts |-> FALSE]
  /\ docpdf = [c \in Concepts |-> FALSE]
  /\ settings = TRUE
  /\ pc = "tick"
  /\ batch = {}
  /\ cur = 0
  /\ actual = "none"
  /\ arm = IdleArms
  /\ hist = NoHist
  /\ giveup = [c \in Concepts |-> FALSE]
  /\ chunks = NotCalled
  /\ mpd = NotCalled
  /\ ts = NotCalled
  /\ whisper = NotCalled
  /\ dash = NotCalled
  /\ detect = NotCalled
  /\ silence = NotCalled
  /\ sprite = NotCalled
  /\ translate = NotCalled
  /\ subs = NotCalled
  /\ encode = NotCalled
  /\ paths = NotCalled
  /\ \E in \in LadderInputs :
       ladder = [phase |-> "entry", in |-> in, i |-> 0, width |-> 0,
                 height |-> 0, num_steps |-> 0, outputs |-> <<>>,
                 skipped |-> 0, bonus_added |-> FALSE]

\* if original_height == 0 || original_width == 0 { return Err(External) }
LadderReject ==
  /\ ladder.phase = "entry"
  /\ ladder.in.original_height = 0 \/ ladder.in.original_width = 0
  /\ ladder' = [ladder EXCEPT !.phase = "err"]
  /\ UNCHANGED <<worker, chunks, mpd, ts, whisper, dash, detect, silence, sprite, translate, subs, encode, paths>>

\* width, height and num_steps before the loop
LadderStart ==
  /\ ladder.phase = "entry"
  /\ ladder.in.original_height # 0
  /\ ladder.in.original_width # 0
  /\ ladder' = [ladder EXCEPT !.phase = "loop",
                              !.width = ladder.in.original_width,
                              !.height = ladder.in.original_height,
                              !.num_steps = NumSteps(ladder.in),
                              !.bonus_added =
                                 BonusAdded(ladder.in, NumSteps(ladder.in))]
  /\ UNCHANGED <<worker, chunks, mpd, ts, whisper, dash, detect, silence, sprite, translate, subs, encode, paths>>

\* One iteration of for i in 0..num_steps.min(quality_steps.len())
LadderStep ==
  /\ ladder.phase = "loop"
  /\ ladder.i < Min(ladder.num_steps, Len(ladder.in.quality_steps))
  /\ LET in == ladder.in
         step == in.quality_steps[ladder.i + 1]
         ratio_ok == RatioWithinEpsilon(ladder.width, ladder.height,
                                        in.original_width, in.original_height)
         keep == /\ ratio_ok
                 /\ ~InOutputs(ladder.outputs, ladder.width, ladder.height)
         pushed == IF keep
                   THEN Append(ladder.outputs,
                               [w |-> ladder.width, h |-> ladder.height,
                                label |-> ladder.i])
                   ELSE ladder.outputs
         new_width == RoundDiv(ladder.width, step)
     IN \E new_height \in RoundDivInexact(new_width * in.original_height,
                                          in.original_width) :
          ladder' = [ladder EXCEPT
                       !.outputs = pushed,
                       !.skipped = IF ratio_ok THEN @ ELSE @ + 1,
                       !.width = SnapEven(Max(new_width, in.min_dimension)),
                       !.height = SnapEven(Max(new_height, in.min_dimension)),
                       !.i = ladder.i + 1]
  /\ UNCHANGED <<worker, chunks, mpd, ts, whisper, dash, detect, silence, sprite, translate, subs, encode, paths>>

\* The loop is over: outputs is the encoding plan.
LadderEnd ==
  /\ ladder.phase = "loop"
  /\ ladder.i >= Min(ladder.num_steps, Len(ladder.in.quality_steps))
  /\ ladder' = [ladder EXCEPT !.phase = "done"]
  /\ UNCHANGED <<worker, chunks, mpd, ts, whisper, dash, detect, silence, sprite, translate, subs, encode, paths>>

LadderNext == LadderReject \/ LadderStart \/ LadderStep \/ LadderEnd

LadderSpec == LadderInit /\ [][LadderNext]_vars

-----------------------------------------------------------------------------
\* compute_split_points and the chunk boundaries of generate_whisper_vtt, run
\* on their own inputs.  Times are whole seconds.

\* Longest audio duration drawn, in seconds.
MaxDuration == 300

\* Longest silence list drawn.
MaxSilences == 2

\* The 60.0 of the search window: (target - 60.0).max(current_pos + 60.0)
SearchMargin == 60

\* The 30.0 of the tail rule: duration - split_at < 30.0
MinTail == 30

\* probe_audio_duration results drawn.
Durations == {d \in 1..MaxDuration : d % 15 = 0}

\* whisper_config.target_chunk_secs values drawn, one of them below the 60
\* second margin.
TargetChoices == {30, 90, 150}

\* whisper_config.max_chunk_secs values drawn, some of them below the target.
MaxChoices == {20, 45, 120, 180}

\* SilenceInterval { start, end } inside an audio of duration d, with
\* endpoints on a 30 second grid so that the midpoint is a whole second.
SilenceIntervals(d) ==
  {s \in {[start |-> 30 * a, end |-> 30 * b] : a, b \in 0..(d \div 30)} :
     /\ s.start < s.end
     /\ s.end - s.start <= 60}

\* What detect_silence_near_splits returns: sorted by start, intervals that
\* touch or overlap merged.
SilenceLists(d) ==
  {l \in UNION {[1..n -> SilenceIntervals(d)] : n \in 0..MaxSilences} :
     \A k \in 1..(Len(l) - 1) : l[k + 1].start > l[k].end}

\* SilenceInterval::midpoint
midpoint(s) == (s.start + s.end) \div 2

\* The filter of best_silence: indices of the silences whose midpoint lies in
\* [search_start, search_end].
Eligible(silences, search_start, search_end) ==
  {k \in 1..Len(silences) :
     midpoint(silences[k]) >= search_start /\ midpoint(silences[k]) <= search_end}

\* Variant of best_silence that takes the first silence of the window.
BestSilenceFirst(silences, eligible, target) ==
  CHOOSE k \in eligible : \A j \in eligible : k <= j

\* min_by on |midpoint - target|: the first of the closest silences.
BestSilence(silences, eligible, target) ==
  CHOOSE k \in eligible :
    \A j \in eligible :
      \/ AbsDiff(midpoint(silences[k]), target)
           < AbsDiff(midpoint(silences[j]), target)
      \/ /\ AbsDiff(midpoint(silences[k]), target)
              = AbsDiff(midpoint(silences[j]), target)
         /\ k <= j

\* Variant of split_at whose search window opens at the current position.
SplitAtSearchFromHere(c) ==
  LET target == c.current_pos + c.target_secs
      max_end == c.current_pos + c.max_secs
      search_start == Max(target - SearchMargin, c.current_pos)
      search_end == Min(max_end, c.duration)
      eligible == Eligible(c.silences, search_start, search_end)
  IN IF eligible # {}
     THEN midpoint(c.silences[BestSilence(c.silences, eligible, target)])
     ELSE Min(max_end, c.duration)
\* split_at of one iteration of the while loop at current_pos.
SplitAt(c) ==
  LET target == c.current_pos + c.target_secs
      max_end == c.current_pos + c.max_secs
      search_start == Max(target - SearchMargin, c.current_pos + SearchMargin)
      search_end == Min(max_end, c.duration)
      eligible == Eligible(c.silences, search_start, search_end)
  IN IF eligible # {}
     THEN midpoint(c.silences[BestSilence(c.silences, eligible, target)])
     ELSE Min(max_end, c.duration)

\* Variant of the boundaries that stops at the last split point.
BoundariesNoRest(split_points, duration) ==
  [k \in 1..Len(split_points) |->
     [start |-> IF k = 1 THEN 0 ELSE split_points[k - 1],
      end |-> split_points[k]]]

\* boundaries: (prev, sp) for every split point, then (prev, duration).
Boundaries(split_points, duration) ==
  [k \in 1..(Len(split_points) + 1) |->
     [start |-> IF k = 1 THEN 0 ELSE split_points[k - 1],
      end |-> IF k <= Len(split_points) THEN split_points[k] ELSE duration]]

\* generate_whisper_vtt has found duration > target_chunk and calls
\* compute_split_points with the detected silences.
SplitInit ==
  /\ processed = [c \in Concepts |-> FALSE]
  /\ raw = [c \in Concepts |-> TRUE]
  /\ procdir = [c \in Concepts |-> FALSE]
  /\ docpdf = [c \in Concepts |-> FALSE]
  /\ settings = TRUE
  /\ pc = "tick"
  /\ batch = {}
  /\ cur = 0
  /\ actual = "none"
  /\ arm = IdleArms
  /\ hist = NoHist
  /\ giveup = [c \in Concepts |-> FALSE]
  /\ ladder = NotCalled
  /\ mpd = NotCalled
  /\ ts = NotCalled
  /\ whisper = NotCalled
  /\ dash = NotCalled
  /\ detect = NotCalled
  /\ silence = NotCalled
  /\ sprite = NotCalled
  /\ translate = NotCalled
  /\ subs = NotCalled
  /\ encode = NotCalled
  /\ paths = NotCalled
  /\ \E d \in Durations, t \in TargetChoices, m \in MaxChoices :
       /\ d > t
       /\ \E l \in SilenceLists(d) :
            chunks = [phase |-> "loop", duration |-> d, silences |-> l,
                      target_secs |-> t, max_secs |-> m, current_pos |-> 0,
                      split_points |-> <<>>, iterations |-> 0,
                      last_pos |-> 0, split_at |-> 0, boundaries |-> <<>>]

\* Variant of the iteration that records its split point however close to the
\* end it lies.
SplitStepNoTailRule ==
  /\ chunks.phase = "loop"
  /\ chunks.current_pos + chunks.target_secs < chunks.duration
  /\ chunks' = [chunks EXCEPT
                  !.split_points = Append(@, SplitAt(chunks)),
                  !.iterations = @ + 1,
                  !.last_pos = chunks.current_pos,
                  !.split_at = SplitAt(chunks),
                  !.current_pos = SplitAt(chunks)]
  /\ UNCHANGED <<worker, ladder, mpd, ts, whisper, dash, detect, silence, sprite, translate, subs, encode, paths>>

\* An iteration of the while loop that records its split point.
SplitStep ==
  /\ chunks.phase = "loop"
  /\ chunks.current_pos + chunks.target_secs < chunks.duration
  /\ chunks.duration - SplitAt(chunks) >= MinTail
  /\ chunks' = [chunks EXCEPT
                  !.split_points = Append(@, SplitAt(chunks)),
                  !.iterations = @ + 1,
                  !.last_pos = chunks.current_pos,
                  !.split_at = SplitAt(chunks),
                  !.current_pos = SplitAt(chunks)]
  /\ UNCHANGED <<worker, ladder, mpd, ts, whisper, dash, detect, silence, sprite, translate, subs, encode, paths>>

\* The iteration whose split point is too close to the end: break.
SplitBreak ==
  /\ chunks.phase = "loop"
  /\ chunks.current_pos + chunks.target_secs < chunks.duration
  /\ chunks.duration - SplitAt(chunks) < MinTail
  /\ chunks' = [chunks EXCEPT
                  !.phase = "returned",
                  !.iterations = @ + 1,
                  !.last_pos = chunks.current_pos,
                  !.split_at = SplitAt(chunks)]
  /\ UNCHANGED <<worker, ladder, mpd, ts, whisper, dash, detect, silence, sprite, translate, subs, encode, paths>>

\* The loop condition current_pos + target_secs < duration is false.
SplitExit ==
  /\ chunks.phase = "loop"
  /\ ~(chunks.current_pos + chunks.target_secs < chunks.duration)
  /\ chunks' = [chunks EXCEPT !.phase = "returned"]
  /\ UNCHANGED <<worker, ladder, mpd, ts, whisper, dash, detect, silence, sprite, translate, subs, encode, paths>>

\* generate_whisper_vtt builds the chunk boundaries from the split points.
BuildBoundaries ==
  /\ chunks.phase = "returned"
  /\ chunks' = [chunks EXCEPT
                  !.phase = "done",
                  !.boundaries = Boundaries(chunks.split_points, chunks.duration)]
  /\ UNCHANGED <<worker, ladder, mpd, ts, whisper, dash, detect, silence, sprite, translate, subs, encode, paths>>

SplitNext == SplitStep \/ SplitBreak \/ SplitExit \/ BuildBoundaries

SplitSpec == SplitInit /\ [][SplitNext]_vars
\* The loop runs on its own thread until it returns; nothing suspends it.
FairSplitSpec == SplitSpec /\ WF_vars(SplitNext)

-----------------------------------------------------------------------------
\* post_process_dash_manifest, run on its own inputs.  A string is a sequence
\* of tokens, a manifest a sequence of lines.

\* Largest number of audio tracks and of audio AdaptationSets drawn.
MaxTracks == 3

\* Titles drawn for an audio track; <<>> is the empty string.
Titles == {<<>>, <<"Commentary">>, <<"eng">>, <<"eng", " (2)">>}

\* Languages drawn for an audio track; <<>> is the empty string.
Languages == {<<>>, <<"eng">>}

\* audio_info: (file_path, language, title) per audio track.
AudioInfos ==
  UNION {[1..n -> [language : Languages, title : Titles]] : n \in 0..MaxTracks}

\* A line of the manifest: its leading spaces, its element and, for an
\* AdaptationSet, its contentType attribute.
Line(indent, tag, contentType) ==
  [indent |-> indent, tag |-> tag, contentType |-> contentType, text |-> <<>>]

\* The lines of one AdaptationSet of the Media Tool's manifest.
AdaptationSetLines(contentType) ==
  <<Line(2, "<AdaptationSet", contentType),
    Line(3, "<Representation", ""),
    Line(2, "</AdaptationSet", "")>>

\* The audio AdaptationSets of a manifest with k of them.
RECURSIVE AudioSets(_)
AudioSets(k) ==
  IF k = 0 THEN <<>> ELSE AudioSets(k - 1) \o AdaptationSetLines("audio")

\* The manifest the Media Tool wrote: one video AdaptationSet and k audio ones.
Manifest(k) ==
  <<Line(0, "<MPD", ""), Line(1, "<Period", "")>>
    \o AdaptationSetLines("video") \o AudioSets(k)
    \o <<Line(1, "</Period", ""), Line(0, "</MPD", "")>>

\* raw_labels: the title, else the language, else "Track".
RawLabel(info) ==
  IF info.title # <<>> THEN info.title
  ELSE IF info.language # <<>> THEN info.language
  ELSE <<"Track">>

\* How many of the first n raw labels of audio_info equal label.
Occurrences(audio_info, n, label) ==
  Cardinality({j \in 1..n : RawLabel(audio_info[j]) = label})

\* format!("{} ({})", label, seen)
Numbered(label, seen) == Append(label, " (" \o ToString(seen) \o ")")

\* labels: the raw labels, a repeated one numbered from its second occurrence.
Labels(audio_info) ==
  [k \in 1..Len(audio_info) |->
     LET label == RawLabel(audio_info[k])
         count == Occurrences(audio_info, Len(audio_info), label)
         seen == Occurrences(audio_info, k, label)
     IN IF count > 1 /\ seen > 1 THEN Numbered(label, seen) ELSE label]

\* str::to_lowercase on a token
ToLower(token) == IF token = "Commentary" THEN "commentary" ELSE token

\* title_lower.contains("commentary")
IsCommentary(title) ==
  \E j \in 1..Len(title) : ToLower(title[j]) = "commentary"

\* Variant of the line test that does not look at contentType.
IsAdaptationSet(line) == line.tag = "<AdaptationSet"

\* line.contains("<AdaptationSet") && line.contains("contentType=\"audio\"")
IsAudioAdaptationSet(line) ==
  line.tag = "<AdaptationSet" /\ line.contentType = "audio"

\* Variant of the inserted lines that marks every track that is not a
\* commentary as main.
InsertedMainOnEvery(line, audio_info, labels, idx) ==
  LET title == audio_info[idx + 1].title
      label == [indent |-> line.indent + 2, tag |-> "<Label",
                contentType |-> "", text |-> labels[idx + 1]]
      role(value) == [indent |-> line.indent + 2, tag |-> "<Role",
                      contentType |-> "", text |-> <<value>>]
  IN IF IsCommentary(title) THEN <<label, role("commentary")>>
     ELSE IF Len(audio_info) > 1 THEN <<label, role("main")>>
     ELSE <<label>>

\* The lines pushed after the audio AdaptationSet of index idx (from 0).
Inserted(line, audio_info, labels, idx) ==
  LET title == audio_info[idx + 1].title
      label == [indent |-> line.indent + 2, tag |-> "<Label",
                contentType |-> "", text |-> labels[idx + 1]]
      role(value) == [indent |-> line.indent + 2, tag |-> "<Role",
                      contentType |-> "", text |-> <<value>>]
  IN IF IsCommentary(title) THEN <<label, role("commentary")>>
     ELSE IF Len(audio_info) > 1 /\ idx = 0 THEN <<label, role("main")>>
     ELSE <<label>>

\* transcode_video calls post_process_dash_manifest on the manifest the Media
\* Tool wrote for some audio tracks.
MpdInit ==
  /\ processed = [c \in Concepts |-> FALSE]
  /\ raw = [c \in Concepts |-> TRUE]
  /\ procdir = [c \in Concepts |-> FALSE]
  /\ docpdf = [c \in Concepts |-> FALSE]
  /\ settings = TRUE
  /\ pc = "tick"
  /\ batch = {}
  /\ cur = 0
  /\ actual = "none"
  /\ arm = IdleArms
  /\ hist = NoHist
  /\ giveup = [c \in Concepts |-> FALSE]
  /\ ladder = NotCalled
  /\ chunks = NotCalled
  /\ ts = NotCalled
  /\ whisper = NotCalled
  /\ dash = NotCalled
  /\ detect = NotCalled
  /\ silence = NotCalled
  /\ sprite = NotCalled
  /\ translate = NotCalled
  /\ subs = NotCalled
  /\ encode = NotCalled
  /\ paths = NotCalled
  /\ \E info \in AudioInfos, k \in 0..MaxTracks :
       mpd = [phase |-> "entry", audio_info |-> info, audio_sets |-> k,
              file |-> Manifest(k), io |-> "none", labels |-> <<>>,
              result |-> <<>>, pos |-> 0, audio_adaptation_idx |-> 0]

\* audio_info.len() <= 1 && all titles empty: return without touching the file
MpdReturnEarly ==
  /\ mpd.phase = "entry"
  /\ Len(mpd.audio_info) <= 1
  /\ \A j \in 1..Len(mpd.audio_info) : mpd.audio_info[j].title = <<>>
  /\ mpd' = [mpd EXCEPT !.phase = "done"]
  /\ UNCHANGED <<worker, ladder, chunks, ts, whisper, dash, detect, silence, sprite, translate, subs, encode, paths>>

\* fs::read_to_string(mpd_path), then the two passes that compute labels
MpdRead ==
  /\ mpd.phase = "entry"
  /\ ~(/\ Len(mpd.audio_info) <= 1
       /\ \A j \in 1..Len(mpd.audio_info) : mpd.audio_info[j].title = <<>>)
  /\ \E ok \in BOOLEAN :
       mpd' = IF ok
              THEN [mpd EXCEPT !.phase = "lines", !.io = "read",
                               !.labels = Labels(mpd.audio_info)]
              ELSE [mpd EXCEPT !.phase = "done", !.io = "read_err"]
  /\ UNCHANGED <<worker, ladder, chunks, ts, whisper, dash, detect, silence, sprite, translate, subs, encode, paths>>

\* One iteration of for line in mpd_content.lines()
MpdLine ==
  /\ mpd.phase = "lines"
  /\ mpd.pos < Len(mpd.file)
  /\ LET line == mpd.file[mpd.pos + 1]
         insert == /\ IsAudioAdaptationSet(line)
                   /\ mpd.audio_adaptation_idx < Len(mpd.audio_info)
     IN mpd' = [mpd EXCEPT
                  !.pos = @ + 1,
                  !.result =
                     IF insert
                     THEN Append(@, line)
                            \o Inserted(line, mpd.audio_info, mpd.labels,
                                        mpd.audio_adaptation_idx)
                     ELSE Append(@, line),
                  !.audio_adaptation_idx = IF insert THEN @ + 1 ELSE @]
  /\ UNCHANGED <<worker, ladder, chunks, ts, whisper, dash, detect, silence, sprite, translate, subs, encode, paths>>

\* fs::write(mpd_path, result)
MpdWrite ==
  /\ mpd.phase = "lines"
  /\ mpd.pos = Len(mpd.file)
  /\ \E ok \in BOOLEAN :
       mpd' = IF ok
              THEN [mpd EXCEPT !.phase = "done", !.io = "written",
                               !.file = mpd.result]
              ELSE [mpd EXCEPT !.phase = "done", !.io = "write_err"]
  /\ UNCHANGED <<worker, ladder, chunks, ts, whisper, dash, detect, silence, sprite, translate, subs, encode, paths>>

MpdNext == MpdReturnEarly \/ MpdRead \/ MpdLine \/ MpdWrite

MpdSpec == MpdInit /\ [][MpdNext]_vars

-----------------------------------------------------------------------------
\* parse_vtt_timestamp, format_vtt_timestamp and offset_vtt, run on their own
\* inputs.  A timestamp HH:MM:SS.mmm is the record of its four numbers; a
\* number of seconds is counted in ticks of a quarter of a millisecond.

\* Well-formed timestamps drawn.
Timestamps == [hh : {0, 1, 99}, mm : {0, 59}, ss : {0, 59}, ms : {0, 1, 999}]

\* offset_secs values drawn, in ticks: 0, half a millisecond, 1.5 s, 600 s.
Offsets == {0, 2, 6000, 2400000}

\* The worker loop stays where it is while a function runs on its own inputs.
WorkerAtRest ==
  /\ processed = [c \in Concepts |-> FALSE]
  /\ raw = [c \in Concepts |-> TRUE]
  /\ procdir = [c \in Concepts |-> FALSE]
  /\ docpdf = [c \in Concepts |-> FALSE]
  /\ settings = TRUE
  /\ pc = "tick"
  /\ batch = {}
  /\ cur = 0
  /\ actual = "none"
  /\ arm = IdleArms
  /\ hist = NoHist
  /\ giveup = [c \in Concepts |-> FALSE]

\* hours * 3600.0 + minutes * 60.0 + seconds: the f64 nearest to the decimal
\* fraction is off by less than a tick unless the fraction is zero.
ParseVtt(t) ==
  LET exact == ((t.hh * 3600 + t.mm * 60 + t.ss) * 1000 + t.ms) * 4
  IN IF t.ms = 0 THEN {exact} ELSE {exact - 1, exact, exact + 1}

\* Variant of the formatting that cuts the seconds after the third decimal.
FormatVttTruncating(total_secs) ==
  LET total == IF total_secs < 0 THEN 0 ELSE total_secs
      millis == (total % 240000) \div 4
  IN {[hh |-> total \div 14400000,
       mm |-> (total % 14400000) \div 240000,
       ss |-> millis \div 1000,
       ms |-> millis % 1000]}

\* format!("{:02}:{:02}:{:06.3}", hours, minutes, seconds): hours and minutes
\* are floors, the seconds total_secs % 60.0 are rounded to three decimals
\* (either way at an exact half), without a carry into the minutes.
FormatVtt(total_secs) ==
  LET total == IF total_secs < 0 THEN 0 ELSE total_secs
      seconds == total % 240000
      rounded == IF seconds % 4 = 2
                 THEN {seconds \div 4, seconds \div 4 + 1}
                 ELSE {(seconds + 2) \div 4}
  IN {[hh |-> total \div 14400000,
       mm |-> (total % 14400000) \div 240000,
       ss |-> millis \div 1000,
       ms |-> millis % 1000] : millis \in rounded}

\* offset_vtt meets a line of a VTT body: a cue timing line
\* "start --> end", or any other line.
TsInit ==
  /\ WorkerAtRest
  /\ ladder = NotCalled
  /\ chunks = NotCalled
  /\ mpd = NotCalled
  /\ whisper = NotCalled
  /\ dash = NotCalled
  /\ detect = NotCalled
  /\ silence = NotCalled
  /\ sprite = NotCalled
  /\ translate = NotCalled
  /\ subs = NotCalled
  /\ encode = NotCalled
  /\ paths = NotCalled
  /\ \E timing \in BOOLEAN, s, e \in Timestamps, o \in Offsets :
       ts = [phase |-> "line", timing |-> timing, start |-> s, end |-> e,
             offset_secs |-> o, out_start |-> s, out_end |-> e]

\* A line with " --> " whose two parts parse: both are shifted and formatted.
OffsetTimingLine ==
  /\ ts.phase = "line"
  /\ ts.timing
  /\ \E start \in ParseVtt(ts.start), end \in ParseVtt(ts.end) :
       \E out_start \in FormatVtt(start + ts.offset_secs),
          out_end \in FormatVtt(end + ts.offset_secs) :
         ts' = [ts EXCEPT !.phase = "done", !.out_start = out_start,
                          !.out_end = out_end]
  /\ UNCHANGED <<worker, ladder, chunks, mpd, whisper, dash, detect, silence, sprite, translate, subs, encode, paths>>

\* Any other line is pushed as it is.
CopyLine ==
  /\ ts.phase = "line"
  /\ ~ts.timing
  /\ ts' = [ts EXCEPT !.phase = "done"]
  /\ UNCHANGED <<worker, ladder, chunks, mpd, whisper, dash, detect, silence, sprite, translate, subs, encode, paths>>

TsNext == OffsetTimingLine \/ CopyLine

TsSpec == TsInit /\ [][TsNext]_vars

-----------------------------------------------------------------------------
\* detect_file_type, run on its own inputs.  Durations are counted in tenths
\* of a second; -1 stands for a value that cannot be read (N/A, empty, not a
\* number).

\* format=duration values drawn: 0, 0.1, 0.2, 1.0, 1.1, 1.5, 5.5 and 60 s.
ProbedDurations == {-1, 0, 1, 2, 10, 11, 15, 55, 600}

\* stream=nb_frames values drawn.
ProbedFrames == {-1, 0, 1, 2}

\* r_frame_rate values drawn, as numerator/denominator; 0/0 is what a still
\* image reports.
ProbedRates == {[num |-> -1, den |-> 1], [num |-> 0, den |-> 0], [num |-> 1, den |-> 1],
                [num |-> 5, den |-> 1], [num |-> 25, den |-> 1]}

\* What the file and the probe commands give detect_file_type: the magic
\* bytes, the two stream probes, the values printed, and whether each later
\* probe command ran successfully.
DetectInputs ==
  [pdf : BOOLEAN, has_video : BOOLEAN, has_audio : BOOLEAN,
   duration : ProbedDurations, nb_frames : ProbedFrames, rate : ProbedRates,
   duration_ok : BOOLEAN, frames_ok : BOOLEAN, info_ok : BOOLEAN,
   fallback_ok : BOOLEAN]

\* dur_str.trim().parse().unwrap_or(0.0)
ParsedDuration(in) == IF in.duration < 0 THEN 0 ELSE in.duration

\* The frame count is read: the probe ran and printed an integer.
FramesRead(in) == in.frames_ok /\ in.nb_frames >= 0

\* duration > 0.0 && fps > 0.0 in the stream_info branch
RateRead(in) ==
  /\ in.info_ok
  /\ ParsedDuration(in) > 0
  /\ in.rate.num > 0
  /\ in.rate.den > 0

\* (duration * fps) as i64
EstimatedFrames(in) ==
  (ParsedDuration(in) * in.rate.num) \div (10 * in.rate.den)

\* Variant of the branch for a video and an audio stream in which a frame
\* count of at most 1 falls through to the duration x fps rule.
BothStreamsFallThrough(in) ==
  IF in.duration_ok /\ ParsedDuration(in) <= 10 THEN "audio"
  ELSE IF FramesRead(in) /\ in.nb_frames > 1 THEN "video"
  ELSE IF RateRead(in)
       THEN IF ParsedDuration(in) > 10 /\ EstimatedFrames(in) > 5
            THEN "video" ELSE "audio"
  ELSE IF in.fallback_ok /\ ParsedDuration(in) > 50 THEN "video"
  ELSE "audio"

\* if has_video && has_audio { .. }
BothStreams(in) ==
  IF in.duration_ok /\ ParsedDuration(in) <= 10 THEN "audio"
  ELSE IF FramesRead(in)
       THEN IF in.nb_frames > 1 THEN "video" ELSE "audio"
  ELSE IF RateRead(in)
       THEN IF ParsedDuration(in) > 10 /\ EstimatedFrames(in) > 5
            THEN "video" ELSE "audio"
  ELSE IF in.fallback_ok /\ ParsedDuration(in) > 50 THEN "video"
  ELSE "audio"

\* Variant of the branch for a video stream alone in which a frame count of
\* at most 1 falls through to the duration x fps rule.
VideoOnlyFallThrough(in) ==
  IF FramesRead(in) /\ in.nb_frames > 1 THEN "video"
  ELSE IF RateRead(in)
       THEN IF EstimatedFrames(in) > 1 THEN "video" ELSE "picture"
  ELSE IF in.fallback_ok /\ ParsedDuration(in) > 1 THEN "video"
  ELSE "picture"

\* if has_video { .. } after the two earlier returns
VideoOnly(in) ==
  IF FramesRead(in)
  THEN IF in.nb_frames > 1 THEN "video" ELSE "picture"
  ELSE IF RateRead(in)
       THEN IF EstimatedFrames(in) > 1 THEN "video" ELSE "picture"
  ELSE IF in.fallback_ok /\ ParsedDuration(in) > 1 THEN "video"
  ELSE "picture"

\* detect_file_type
detect_file_type(in) ==
  IF in.pdf THEN "document_pdf"
  ELSE IF ~in.has_video /\ ~in.has_audio THEN "none"
  ELSE IF in.has_audio /\ ~in.has_video THEN "audio"
  ELSE IF in.has_video /\ in.has_audio THEN BothStreams(in)
  ELSE VideoOnly(in)

\* process() calls detect_file_type on an upload.
DetectInit ==
  /\ WorkerAtRest
  /\ ladder = NotCalled
  /\ chunks = NotCalled
  /\ mpd = NotCalled
  /\ ts = NotCalled
  /\ whisper = NotCalled
  /\ dash = NotCalled
  /\ silence = NotCalled
  /\ sprite = NotCalled
  /\ translate = NotCalled
  /\ subs = NotCalled
  /\ encode = NotCalled
  /\ paths = NotCalled
  /\ \E in \in DetectInputs :
       detect = [phase |-> "entry", in |-> in, detected_type |-> "none"]

\* let detected_type = detect_file_type(&input_path)
Detect ==
  /\ detect.phase = "entry"
  /\ detect' = [detect EXCEPT !.phase = "done",
                              !.detected_type = detect_file_type(detect.in)]
  /\ UNCHANGED <<worker, ladder, chunks, mpd, ts, whisper, dash, silence, sprite, translate, subs, encode, paths>>

DetectNext == Detect

DetectSpec == DetectInit /\ [][DetectNext]_vars

-----------------------------------------------------------------------------
\* The ladder transcodes of transcode_video and the video inputs of the DASH
\* command, run on their own inputs.

\* How a spawned ladder transcode can end: exit status 0, a non-zero exit
\* status, sh could not be spawned, or the blocking task panicked.
TranscodeResults == {"ok", "exit_nonzero", "spawn_err", "panicked"}

\* The plan has n entries; output_<label>.webm of an entry may be left from
\* an earlier attempt on the same concept.
DashInit ==
  /\ WorkerAtRest
  /\ ladder = NotCalled
  /\ chunks = NotCalled
  /\ mpd = NotCalled
  /\ ts = NotCalled
  /\ whisper = NotCalled
  /\ detect = NotCalled
  /\ silence = NotCalled
  /\ sprite = NotCalled
  /\ translate = NotCalled
  /\ subs = NotCalled
  /\ encode = NotCalled
  /\ paths = NotCalled
  /\ \E n \in 0..MaxSteps :
       \E file \in [1..n -> BOOLEAN] :
         dash = [phase |-> "transcoding",
                 status |-> [k \in 1..n |-> "running"],
                 file |-> file,
                 webm_files |-> [k \in 1..n |-> k],
                 inputs |-> <<>>]

\* The ffmpeg of ladder entry k ends.  A successful run has written its
\* output; a failed run may have written a partial output, removed nothing it
\* did not overwrite, or written nothing; a run that was never started leaves
\* the file system as it was.
TranscodeFinish(k) ==
  /\ dash.phase = "transcoding"
  /\ dash.status[k] = "running"
  /\ \E result \in TranscodeResults, partial \in BOOLEAN :
       dash' = [dash EXCEPT
                  !.status[k] = result,
                  !.file[k] = CASE result = "ok" -> TRUE
                                [] result = "exit_nonzero" -> @ \/ partial
                                [] OTHER -> @]
  /\ UNCHANGED <<worker, ladder, chunks, mpd, ts, whisper, detect, silence, sprite, translate, subs, encode, paths>>

\* webm_files.retain(|file| fs::metadata(file).is_ok())
Retained(webm_files, file, status) ==
  SelectSeq(webm_files, LAMBDA k : file[k])

\* All handles were awaited: retain, and return Err when nothing is left.
DashRetain ==
  /\ dash.phase = "transcoding"
  /\ \A k \in DOMAIN dash.status : dash.status[k] # "running"
  /\ LET kept == Retained(dash.webm_files, dash.file, dash.status)
     IN dash' = [dash EXCEPT !.webm_files = kept,
                             !.phase = IF kept = <<>> THEN "err" ELSE "mkdir"]
  /\ UNCHANGED <<worker, ladder, chunks, mpd, ts, whisper, detect, silence, sprite, translate, subs, encode, paths>>

\* fs::create_dir_all(&dash_output_dir)? and the audio transcodes either make
\* the function return Err or let all_inputs be built from webm_files.
DashInputs ==
  /\ dash.phase = "mkdir"
  /\ \E ok \in BOOLEAN :
       dash' = IF ok
               THEN [dash EXCEPT !.phase = "inputs", !.inputs = dash.webm_files]
               ELSE [dash EXCEPT !.phase = "err"]
  /\ UNCHANGED <<worker, ladder, chunks, mpd, ts, whisper, detect, silence, sprite, translate, subs, encode, paths>>

DashNext ==
  \/ \E k \in 1..MaxSteps : k \in DOMAIN dash.status /\ TranscodeFinish(k)
  \/ DashRetain
  \/ DashInputs

DashSpec == DashInit /\ [][DashNext]_vars

-----------------------------------------------------------------------------
\* The chunked path of generate_whisper_vtt after the boundaries are built:
\* extraction, transcription, merge and clean-up, run on their own inputs.
\* Times are counted in ticks of a quarter of a millisecond; chunk i of the
\* code is chunk i + 1 here.

\* Largest number of chunks drawn.
MaxChunks == 3

\* Chunk lengths drawn: 30 s and 90.2505 s.
ChunkLengths == {120000, 361002}

\* Cue timing lines the STT service answers with, relative to the chunk.
Cues == {[start |-> [hh |-> 0, mm |-> 0, ss |-> 59, ms |-> 999],
          end |-> [hh |-> 0, mm |-> 1, ss |-> 0, ms |-> 0]]}

\* What whisper_transcribe_file returns for a chunk: None, a VTT with no body
\* after its header, or a VTT with a header and a cue.
Responses == {[kind |-> "none"], [kind |-> "empty"]}
               \cup {[kind |-> "cue", cue |-> c] : c \in Cues}

\* The boundaries built from chunk lengths: contiguous from 0.
RECURSIVE BoundariesOf(_, _)
BoundariesOf(lengths, from) ==
  IF lengths = <<>> THEN <<>>
  ELSE <<[start |-> from, end |-> from + Head(lengths)]>>
         \o BoundariesOf(Tail(lengths), from + Head(lengths))

\* chunk_duration of the transcription loop: boundaries[i].1 - boundaries[i].0
\* with i the position in chunk_files.
TimeoutDuration(w, i) == w.boundaries[i].end - w.boundaries[i].start

\* (chunk_duration * 2.0).ceil() as u64, in seconds
ChunkTimeout(chunk_duration) == (2 * chunk_duration + 3999) \div 4000

\* Variant of the offset that takes the start of the boundary at the position
\* in chunk_files.
ChunkOffsetByPosition(w, i) == w.boundaries[i].start

\* offset_secs of the i-th extracted file: the start stored with its path.
ChunkOffset(w, i) == w.chunk_files[i].offset_secs

\* offset_vtt on the body of a response: the cue's timing line shifted.
OffsetCue(cue, offset_secs) ==
  {[start |-> out_start, end |-> out_end] :
     out_start \in UNION {FormatVtt(t + offset_secs) : t \in ParseVtt(cue.start)},
     out_end \in UNION {FormatVtt(t + offset_secs) : t \in ParseVtt(cue.end)}}

\* generate_whisper_vtt has built the boundaries of a long audio; no chunk
\* file exists yet.
WhisperInit ==
  /\ WorkerAtRest
  /\ ladder = NotCalled
  /\ chunks = NotCalled
  /\ mpd = NotCalled
  /\ ts = NotCalled
  /\ dash = NotCalled
  /\ detect = NotCalled
  /\ silence = NotCalled
  /\ sprite = NotCalled
  /\ translate = NotCalled
  /\ subs = NotCalled
  /\ encode = NotCalled
  /\ paths = NotCalled
  /\ \E n \in 1..MaxChunks :
       \E lengths \in [1..n -> ChunkLengths] :
         whisper = [phase |-> "extract",
                    boundaries |-> BoundariesOf(lengths, 0),
                    i |-> 0,
                    file |-> [k \in 1..n |-> FALSE],
                    chunk_files |-> <<>>,
                    requests |-> <<>>,
                    merged_vtt |-> <<[kind |-> "WEBVTT"]>>,
                    any_success |-> FALSE,
                    remove_failed |-> FALSE,
                    saved |-> FALSE]

\* One iteration of the extraction loop: ffmpeg writes whisper_chunk_<i>.wav
\* and succeeds, or fails with or without a partial file, or cannot be run.
ExtractChunk ==
  /\ whisper.phase = "extract"
  /\ whisper.i < Len(whisper.boundaries)
  /\ LET k == whisper.i + 1
     IN \E ok \in BOOLEAN, partial \in BOOLEAN :
          whisper' = [whisper EXCEPT
                        !.i = k,
                        !.file[k] = ok \/ partial,
                        !.chunk_files =
                           IF ok
                           THEN Append(@, [path |-> k,
                                           offset_secs |-> whisper.boundaries[k].start])
                           ELSE @]
  /\ UNCHANGED <<worker, ladder, chunks, mpd, ts, dash, detect, silence, sprite, translate, subs, encode, paths>>

\* if chunk_files.is_empty() { return Vec::new(); }
NoChunkExtracted ==
  /\ whisper.phase = "extract"
  /\ whisper.i = Len(whisper.boundaries)
  /\ whisper.chunk_files = <<>>
  /\ whisper' = [whisper EXCEPT !.phase = "done"]
  /\ UNCHANGED <<worker, ladder, chunks, mpd, ts, dash, detect, silence, sprite, translate, subs, encode, paths>>

\* The extraction loop is over with at least one chunk file.
StartTranscription ==
  /\ whisper.phase = "extract"
  /\ whisper.i = Len(whisper.boundaries)
  /\ whisper.chunk_files # <<>>
  /\ whisper' = [whisper EXCEPT !.phase = "transcribe", !.i = 0]
  /\ UNCHANGED <<worker, ladder, chunks, mpd, ts, dash, detect, silence, sprite, translate, subs, encode, paths>>

\* One iteration of the transcription loop: the chunk file is sent with its
\* time-out; the body of an answer is shifted and appended to merged_vtt.
TranscribeChunk ==
  /\ whisper.phase = "transcribe"
  /\ whisper.i < Len(whisper.chunk_files)
  /\ LET i == whisper.i + 1
         request == [path |-> whisper.chunk_files[i].path,
                     timeout_secs |-> ChunkTimeout(TimeoutDuration(whisper, i))]
     IN \E response \in Responses :
          \/ /\ response.kind \in {"none", "empty"}
             /\ whisper' = [whisper EXCEPT
                              !.i = i,
                              !.requests = Append(@, request)]
          \/ /\ response.kind = "cue"
             /\ \E out \in OffsetCue(response.cue, ChunkOffset(whisper, i)) :
                  whisper' = [whisper EXCEPT
                                !.i = i,
                                !.requests = Append(@, request),
                                !.any_success = TRUE,
                                !.merged_vtt =
                                   Append(@, [kind |-> "cue",
                                              path |-> whisper.chunk_files[i].path,
                                              cue |-> response.cue,
                                              start |-> out.start,
                                              end |-> out.end])]
  /\ UNCHANGED <<worker, ladder, chunks, mpd, ts, dash, detect, silence, sprite, translate, subs, encode, paths>>

\* for (chunk_path, _) in &chunk_files { let _ = fs::remove_file(chunk_path); }
CleanUpChunks ==
  /\ whisper.phase = "transcribe"
  /\ whisper.i = Len(whisper.chunk_files)
  /\ \E failed \in SUBSET {whisper.chunk_files[j].path :
                             j \in 1..Len(whisper.chunk_files)} :
       whisper' = [whisper EXCEPT
                     !.phase = "write",
                     !.remove_failed = failed # {},
                     !.file = [k \in DOMAIN whisper.file |->
                                 IF \E j \in 1..Len(whisper.chunk_files) :
                                      whisper.chunk_files[j].path = k
                                 THEN k \in failed
                                 ELSE whisper.file[k]]]
  /\ UNCHANGED <<worker, ladder, chunks, mpd, ts, dash, detect, silence, sprite, translate, subs, encode, paths>>

\* if any_success { fs::write(output_file, merged_vtt) }, then return
WriteMerged ==
  /\ whisper.phase = "write"
  /\ \E ok \in BOOLEAN :
       whisper' = [whisper EXCEPT !.phase = "done",
                                  !.saved = whisper.any_success /\ ok]
  /\ UNCHANGED <<worker, ladder, chunks, mpd, ts, dash, detect, silence, sprite, translate, subs, encode, paths>>

WhisperNext ==
  \/ ExtractChunk
  \/ NoChunkExtracted
  \/ StartTranscription
  \/ TranscribeChunk
  \/ CleanUpChunks
  \/ WriteMerged

WhisperSpec == WhisperInit /\ [][WhisperNext]_vars

-----------------------------------------------------------------------------
\* The thread batches of detect_silence_near_splits, run on their own inputs:
\* a number of merged windows and a parallel limit.

\* Largest number of merged windows drawn.
MaxWindows == 3

\* Largest silence_detect_parallel drawn.
MaxParallel == 3

\* Variant of the batch size that lets one more thread run.
BatchSizePlusOne(parallel_limit) == Max(1, parallel_limit) + 1

\* let batch_size = (parallel_limit.max(1)) as usize;
BatchSize(parallel_limit) == Max(1, parallel_limit)

\* The windows are merged and not empty; no thread was spawned yet.
SilenceInit ==
  /\ WorkerAtRest
  /\ ladder = NotCalled
  /\ chunks = NotCalled
  /\ mpd = NotCalled
  /\ ts = NotCalled
  /\ whisper = NotCalled
  /\ dash = NotCalled
  /\ detect = NotCalled
  /\ sprite = NotCalled
  /\ translate = NotCalled
  /\ subs = NotCalled
  /\ encode = NotCalled
  /\ paths = NotCalled
  /\ \E n \in 1..MaxWindows, parallel_limit \in 0..MaxParallel :
       silence = [phase |-> "spawn",
                  parallel_limit |-> parallel_limit,
                  thread |-> [k \in 1..n |-> "unspawned"],
                  analyses |-> [k \in 1..n |-> 0],
                  batch_start |-> 1,
                  next |-> 1,
                  joined |-> 0]

\* Last window of the batch that starts at batch_start.
BatchEnd(s) ==
  Min(s.batch_start + BatchSize(s.parallel_limit) - 1, Len(s.thread))

\* std::thread::spawn for the next window of the batch.
SpawnThread ==
  /\ silence.phase = "spawn"
  /\ silence.next <= BatchEnd(silence)
  /\ silence' = [silence EXCEPT !.thread[silence.next] = "running",
                                !.analyses[silence.next] = @ + 1,
                                !.next = @ + 1]
  /\ UNCHANGED <<worker, ladder, chunks, mpd, ts, whisper, dash, detect, sprite, translate, subs, encode, paths>>

\* The handles of the batch are collected; the joins begin.
BatchSpawned ==
  /\ silence.phase = "spawn"
  /\ silence.next > BatchEnd(silence)
  /\ silence' = [silence EXCEPT !.phase = "join"]
  /\ UNCHANGED <<worker, ladder, chunks, mpd, ts, whisper, dash, detect, sprite, translate, subs, encode, paths>>

\* detect_silence_in_range of window k returns, or its thread panics.
ThreadEnd(k) ==
  /\ silence.thread[k] = "running"
  /\ \E result \in {"finished", "panicked"} :
       silence' = [silence EXCEPT !.thread[k] = result]
  /\ UNCHANGED <<worker, ladder, chunks, mpd, ts, whisper, dash, detect, sprite, translate, subs, encode, paths>>

\* handle.join() of the next handle of the batch returns.
JoinHandle ==
  /\ silence.phase = "join"
  /\ silence.joined < BatchEnd(silence)
  /\ silence.thread[silence.joined + 1] \in {"finished", "panicked"}
  /\ silence' = [silence EXCEPT !.joined = @ + 1]
  /\ UNCHANGED <<worker, ladder, chunks, mpd, ts, whisper, dash, detect, sprite, translate, subs, encode, paths>>

\* All handles of the batch are joined: the next batch, or sort, deduplicate
\* and return.
BatchJoined ==
  /\ silence.phase = "join"
  /\ silence.joined = BatchEnd(silence)
  /\ silence' = [silence EXCEPT
                   !.phase = IF silence.joined = Len(silence.thread)
                             THEN "done" ELSE "spawn",
                   !.batch_start = silence.joined + 1]
  /\ UNCHANGED <<worker, ladder, chunks, mpd, ts, whisper, dash, detect, sprite, translate, subs, encode, paths>>

SilenceNext ==
  \/ SpawnThread
  \/ BatchSpawned
  \/ \E k \in 1..MaxWindows : k \in DOMAIN silence.thread /\ ThreadEnd(k)
  \/ JoinHandle
  \/ BatchJoined

SilenceSpec == SilenceInit /\ [][SilenceNext]_vars

-----------------------------------------------------------------------------
\* The preview atlas of transcode_video, run on its own inputs: the sprite
\* tasks under their semaphore and the cues of previews.vtt.  Times are
\* counted in microseconds, the resolution of the container duration.

\* Largest max_sprites_per_file drawn.
MaxPerSprite == 3

\* Largest sprites_across drawn.
MaxAcross == 2

\* default_preview_thumb_width
ThumbWidth == 640

\* default_preview_thumb_height
ThumbHeight == 360

\* Durations drawn: 0, 0.0004 s, 7.5 s and 10.0004 s.
SpriteDurations == {0, 400, 7500000, 10000400}

\* interval_seconds drawn: 2.5 s and 5 s.  Both are exact in f64, so that the
\* divisions and products below are the ones the build computes.
SpriteIntervals == {2500000, 5000000}

\* (x / y).ceil() for y > 0
CeilDiv(x, y) == (x + y - 1) \div y

\* num_thumbnails
NumThumbnails(duration, interval_seconds) ==
  IF duration > 0 THEN Max(CeilDiv(duration, interval_seconds), 1) ELSE 1

\* num_sprite_files
NumSpriteFiles(num_thumbnails, max_sprites_per_file) ==
  Max(CeilDiv(num_thumbnails, max_sprites_per_file), 1)

\* rows_in_this_file of sprite file sprite_idx
RowsInFile(s, sprite_idx) ==
  LET start_thumb_idx == sprite_idx * s.max_sprites_per_file
      end_thumb_idx == Min(start_thumb_idx + s.max_sprites_per_file,
                           s.num_thumbnails)
  IN CeilDiv(end_thumb_idx - start_thumb_idx, s.sprites_across)

\* format_timestamp_vtt: every part is cut with `as u32`.
format_timestamp_vtt(seconds) ==
  [hh |-> (seconds \div 1000000) \div 3600,
   mm |-> ((seconds \div 1000000) % 3600) \div 60,
   ss |-> (seconds \div 1000000) % 60,
   ms |-> (seconds % 1000000) \div 1000]

\* Variant of the semaphore that has one permit more.
SemaphorePermitsPlusOne(parallel_limit) == Max(parallel_limit, 1) + 1

\* Semaphore::new(config.preview_sprites.parallel_limit.max(1))
SemaphorePermits(parallel_limit) == Max(parallel_limit, 1)

\* The three post-processing tasks are spawned, the semaphore is created and
\* no sprite task is spawned yet.
SpriteInit ==
  /\ WorkerAtRest
  /\ ladder = NotCalled
  /\ chunks = NotCalled
  /\ mpd = NotCalled
  /\ ts = NotCalled
  /\ whisper = NotCalled
  /\ dash = NotCalled
  /\ detect = NotCalled
  /\ silence = NotCalled
  /\ translate = NotCalled
  /\ subs = NotCalled
  /\ encode = NotCalled
  /\ paths = NotCalled
  /\ \E duration \in SpriteDurations, interval_seconds \in SpriteIntervals,
        max_sprites_per_file \in 1..MaxPerSprite,
        sprites_across \in 1..MaxAcross, parallel_limit \in 0..MaxParallel :
       LET num_thumbnails == NumThumbnails(duration, interval_seconds)
           num_sprite_files == NumSpriteFiles(num_thumbnails, max_sprites_per_file)
       IN sprite = [phase |-> "spawn",
                    duration |-> duration,
                    interval_seconds |-> interval_seconds,
                    max_sprites_per_file |-> max_sprites_per_file,
                    sprites_across |-> sprites_across,
                    parallel_limit |-> parallel_limit,
                    num_thumbnails |-> num_thumbnails,
                    num_sprite_files |-> num_sprite_files,
                    post_running |-> 3,
                    permits |-> SemaphorePermits(parallel_limit),
                    task |-> [k \in 0..(num_sprite_files - 1) |-> "unspawned"],
                    rows |-> [k \in 0..(num_sprite_files - 1) |-> 0],
                    spawned |-> 0,
                    vtt_cues |-> <<>>,
                    written |-> FALSE]

\* One of thumbnail.jpg, thumbnail.avif and showcase.avif ends.
PostTaskEnd ==
  /\ sprite.phase \in {"spawn", "await"}
  /\ sprite.post_running > 0
  /\ sprite' = [sprite EXCEPT !.post_running = @ - 1]
  /\ UNCHANGED <<worker, ladder, chunks, mpd, ts, whisper, dash, detect, silence, translate, subs, encode, paths>>

\* One iteration of the sprite loop: the command of the file is built and its
\* task is spawned.
SpawnSprite ==
  /\ sprite.phase = "spawn"
  /\ sprite.spawned < sprite.num_sprite_files
  /\ sprite' = [sprite EXCEPT
                  !.task[sprite.spawned] = "acquiring",
                  !.rows[sprite.spawned] = RowsInFile(sprite, sprite.spawned),
                  !.spawned = @ + 1]
  /\ UNCHANGED <<worker, ladder, chunks, mpd, ts, whisper, dash, detect, silence, translate, subs, encode, paths>>

\* The sprite loop is over.
SpritesSpawned ==
  /\ sprite.phase = "spawn"
  /\ sprite.spawned = sprite.num_sprite_files
  /\ sprite' = [sprite EXCEPT !.phase = "await"]
  /\ UNCHANGED <<worker, ladder, chunks, mpd, ts, whisper, dash, detect, silence, translate, subs, encode, paths>>

\* permit.acquire().await returns in task k, which starts its ffmpeg.
AcquirePermit(k) ==
  /\ sprite.task[k] = "acquiring"
  /\ sprite.permits > 0
  /\ sprite' = [sprite EXCEPT !.task[k] = "running", !.permits = @ - 1]
  /\ UNCHANGED <<worker, ladder, chunks, mpd, ts, whisper, dash, detect, silence, translate, subs, encode, paths>>

\* The ffmpeg of task k exits, with any status, or could not be run.
SpriteProcessEnd(k) ==
  /\ sprite.task[k] = "running"
  /\ sprite' = [sprite EXCEPT !.task[k] = "exited"]
  /\ UNCHANGED <<worker, ladder, chunks, mpd, ts, whisper, dash, detect, silence, translate, subs, encode, paths>>

\* The blocking task of k was awaited; _permit is dropped at the end of the
\* async block.
ReleasePermit(k) ==
  /\ sprite.task[k] = "exited"
  /\ sprite' = [sprite EXCEPT !.task[k] = "done", !.permits = @ + 1]
  /\ UNCHANGED <<worker, ladder, chunks, mpd, ts, whisper, dash, detect, silence, translate, subs, encode, paths>>

\* Every post handle and every sprite handle was awaited.
AwaitHandles ==
  /\ sprite.phase = "await"
  /\ sprite.post_running = 0
  /\ \A k \in DOMAIN sprite.task : sprite.task[k] = "done"
  /\ sprite' = [sprite EXCEPT !.phase = "cues"]
  /\ UNCHANGED <<worker, ladder, chunks, mpd, ts, whisper, dash, detect, silence, translate, subs, encode, paths>>

\* One iteration of the cue loop, with the timestamps as they are printed.
PushCue ==
  /\ sprite.phase = "cues"
  /\ Len(sprite.vtt_cues) < sprite.num_thumbnails
  /\ LET i == Len(sprite.vtt_cues)
         local_idx == i % sprite.max_sprites_per_file
         start_time == i * sprite.interval_seconds
         end_time == (i + 1) * sprite.interval_seconds
     IN sprite' = [sprite EXCEPT !.vtt_cues =
          Append(@, [start |-> format_timestamp_vtt(start_time),
                     end |-> format_timestamp_vtt(Min(end_time, sprite.duration)),
                     x |-> (local_idx % sprite.sprites_across) * ThumbWidth,
                     y |-> (local_idx \div sprite.sprites_across) * ThumbHeight,
                     width |-> ThumbWidth,
                     height |-> ThumbHeight,
                     sprite_idx |-> i \div sprite.max_sprites_per_file])]
  /\ UNCHANGED <<worker, ladder, chunks, mpd, ts, whisper, dash, detect, silence, translate, subs, encode, paths>>

\* fs::write(&vtt_path, vtt_content) succeeds or fails with a warning.
WritePreviewsVtt ==
  /\ sprite.phase = "cues"
  /\ Len(sprite.vtt_cues) = sprite.num_thumbnails
  /\ \E ok \in BOOLEAN :
       sprite' = [sprite EXCEPT !.phase = "done", !.written = ok]
  /\ UNCHANGED <<worker, ladder, chunks, mpd, ts, whisper, dash, detect, silence, translate, subs, encode, paths>>

SpriteNext ==
  \/ PostTaskEnd
  \/ SpawnSprite
  \/ SpritesSpawned
  \/ \E k \in DOMAIN sprite.task : AcquirePermit(k)
  \/ \E k \in DOMAIN sprite.task : SpriteProcessEnd(k)
  \/ \E k \in DOMAIN sprite.task : ReleasePermit(k)
  \/ AwaitHandles
  \/ PushCue
  \/ WritePreviewsVtt

SpriteSpec == SpriteInit /\ [][SpriteNext]_vars

\* Every ffmpeg ends and every ready task is scheduled by the runtime.
FairSpriteSpec == SpriteSpec /\ WF_vars(SpriteNext)

-----------------------------------------------------------------------------
\* translate_subtitle_file, run on its own inputs: a source WebVTT file as a
\* list of lines and the answers of the LLM service.

\* Largest number of blocks of a source file drawn.
MaxCues == 3

\* A text line of a WebVTT file or of an LLM answer: its words, whether it
\* starts with a list marker and whether it ends with a colon.
TextLine(body, marker, colon) ==
  [kind |-> "text", body |-> body, marker |-> marker, colon |-> colon]

\* The k-th block of a source file: a cue with text, a cue without text, or
\* a cue of two text lines.
Block(k, shape) ==
  LET timing == [kind |-> "timing", start |-> 2 * k, end |-> 2 * k + 1]
      blank == [kind |-> "blank"]
  IN CASE shape = "cue" -> <<timing, TextLine("hello", FALSE, FALSE), blank>>
       [] shape = "two_lines" -> <<timing, TextLine("hello", FALSE, FALSE),
                                   TextLine("world", FALSE, TRUE), blank>>
       [] OTHER -> <<timing, blank>>

\* The lines of a source file with the given block shapes.
RECURSIVE SourceLines(_, _)
SourceLines(shapes, k) ==
  IF k > Len(shapes) THEN <<>>
  ELSE Block(k, shapes[k]) \o SourceLines(shapes, k + 1)

\* The source files drawn: a header and up to MaxCues blocks.
SourceFiles ==
  {<<[kind |-> "header"], [kind |-> "blank"]>> \o SourceLines(shapes, 1) :
     shapes \in UNION {[1..n -> {"cue", "two_lines", "no_text"}] : n \in 1..MaxCues}}

\* The text lines from position j up to the next blank line or the end.
RECURSIVE TextUntilBlank(_, _)
TextUntilBlank(lines, j) ==
  IF j > Len(lines) \/ lines[j].kind = "blank" THEN <<>>
  ELSE <<lines[j]>> \o TextUntilBlank(lines, j + 1)

\* parse_vtt_cues from position j: a timing line opens a cue, which is kept
\* when it has text; every other line is skipped.
RECURSIVE ParseFrom(_, _)
ParseFrom(lines, j) ==
  IF j > Len(lines) THEN <<>>
  ELSE IF lines[j].kind = "timing"
       THEN LET text_lines == TextUntilBlank(lines, j + 1)
                after == j + 1 + Len(text_lines) + 1
            IN (IF text_lines # <<>>
                THEN <<[start |-> lines[j].start, end |-> lines[j].end,
                        text |-> text_lines]>>
                ELSE <<>>) \o ParseFrom(lines, after)
       ELSE ParseFrom(lines, j + 1)

\* parse_vtt_cues
parse_vtt_cues(vtt_content) == ParseFrom(vtt_content, 1)

\* The lines of one cue in build_vtt_from_cues.
CueLinesOf(cue) ==
  <<[kind |-> "timing", start |-> cue.start, end |-> cue.end]>>
    \o cue.text \o <<[kind |-> "blank"]>>

\* build_vtt_from_cues
RECURSIVE build_vtt_from_cues(_)
build_vtt_from_cues(cues) ==
  IF cues = <<>> THEN <<[kind |-> "header"], [kind |-> "blank"]>>
  ELSE build_vtt_from_cues(SubSeq(cues, 1, Len(cues) - 1))
         \o CueLinesOf(cues[Len(cues)])

\* The content field of the answers drawn: empty, a translation, a preamble
\* alone, and a preamble followed by a list of options.
Contents ==
  {<<>>,
   <<TextLine("ahoj", FALSE, FALSE)>>,
   <<TextLine("zde", FALSE, TRUE)>>,
   <<TextLine("zde", FALSE, TRUE), TextLine("ahoj", TRUE, FALSE),
     TextLine("nazdar", TRUE, FALSE)>>}

\* How a request to the LLM service ends.
LlamaResponses ==
  {[kind |-> "send_err"], [kind |-> "status_err"], [kind |-> "no_content"]}
    \cup {[kind |-> "content", content |-> c] : c \in Contents}

\* strip_translation_preamble: after a first line that ends with a colon only
\* the first option is kept, without its list marker.
strip_translation_preamble(text) ==
  IF text = <<>> THEN <<>>
  ELSE IF text[1].colon
       THEN IF Len(text) > 1
            THEN <<TextLine(text[2].body, FALSE, text[2].colon)>>
            ELSE <<>>
       ELSE text

\* translate_text_via_llama: None is <<>>, as an empty result is filtered.
translate_text_via_llama(response) ==
  IF response.kind = "content"
  THEN strip_translation_preamble(response.content)
  ELSE <<>>

\* Variant of the loop body that drops a cue whose translation failed.
PushedCueOrNothing(cue, translated_text) ==
  IF translated_text # <<>>
  THEN <<[start |-> cue.start, end |-> cue.end, text |-> translated_text]>>
  ELSE <<>>

\* The cue pushed to translated_cues by one iteration of the loop.
PushedCue(cue, translated_text) ==
  IF translated_text # <<>>
  THEN <<[start |-> cue.start, end |-> cue.end, text |-> translated_text]>>
  ELSE <<[start |-> cue.start, end |-> cue.end, text |-> cue.text]>>

\* translate_subtitle_file is called on a source file; nothing was written.
TranslateInit ==
  /\ WorkerAtRest
  /\ ladder = NotCalled
  /\ chunks = NotCalled
  /\ mpd = NotCalled
  /\ ts = NotCalled
  /\ whisper = NotCalled
  /\ dash = NotCalled
  /\ detect = NotCalled
  /\ silence = NotCalled
  /\ sprite = NotCalled
  /\ subs = NotCalled
  /\ encode = NotCalled
  /\ paths = NotCalled
  /\ \E source \in SourceFiles :
       translate = [phase |-> "entry",
                    source |-> source,
                    cues |-> <<>>,
                    responses |-> <<>>,
                    translated_cues |-> <<>>,
                    output |-> <<>>,
                    written |-> FALSE,
                    result |-> FALSE]

\* The source is read and parsed and the HTTP client is built; each of the
\* three can end the call with false.
TranslateRead ==
  /\ translate.phase = "entry"
  /\ \E read_ok \in BOOLEAN, client_ok \in BOOLEAN :
       LET cues == parse_vtt_cues(translate.source)
       IN translate' =
            IF read_ok /\ cues # <<>> /\ client_ok
            THEN [translate EXCEPT !.phase = "loop", !.cues = cues]
            ELSE [translate EXCEPT !.phase = "done"]
  /\ UNCHANGED <<worker, ladder, chunks, mpd, ts, whisper, dash, detect, silence, sprite, subs, encode, paths>>

\* One iteration of the loop over the cues.
TranslateCue ==
  /\ translate.phase = "loop"
  /\ Len(translate.responses) < Len(translate.cues)
  /\ \E response \in LlamaResponses :
       LET cue == translate.cues[Len(translate.responses) + 1]
       IN translate' = [translate EXCEPT
            !.responses = Append(@, response),
            !.translated_cues =
               @ \o PushedCue(cue, translate_text_via_llama(response))]
  /\ UNCHANGED <<worker, ladder, chunks, mpd, ts, whisper, dash, detect, silence, sprite, subs, encode, paths>>

\* build_vtt_from_cues and fs::write(output_path, output_vtt)
TranslateWrite ==
  /\ translate.phase = "loop"
  /\ Len(translate.responses) = Len(translate.cues)
  /\ \E ok \in BOOLEAN :
       translate' =
         IF ok
         THEN [translate EXCEPT
                 !.phase = "done", !.written = TRUE, !.result = TRUE,
                 !.output = build_vtt_from_cues(translate.translated_cues)]
         ELSE [translate EXCEPT !.phase = "done"]
  /\ UNCHANGED <<worker, ladder, chunks, mpd, ts, whisper, dash, detect, silence, sprite, subs, encode, paths>>

TranslateNext ==
  \/ TranslateRead
  \/ TranslateCue
  \/ TranslateWrite

TranslateSpec == TranslateInit /\ [][TranslateNext]_vars

-----------------------------------------------------------------------------
\* extract_subtitles_to_vtt, run on its own inputs: the subtitle streams of
\* the file and the translation configuration.  A name is a sequence of
\* tokens; <<>> is the empty string and, for an Option, None.

\* Largest number of subtitle streams drawn.
MaxStreams == 3

\* Language tags drawn: none, eng, en and en-1.
SubLanguages == {<<>>, <<"eng">>, <<"en">>, <<"en", "-1">>}

\* Titles drawn: none and Forced.
SubTitles == {<<>>, <<"Forced">>}

\* translation_config.languages when translation is configured
ConfiguredLanguages == <<"en", "cs">>

\* Languages the STT service can detect.
DetectedLanguages == {<<>>, <<"en">>, <<"de">>}

\* sanitize_filename: a character that is not alphanumeric becomes '_'.
sanitize_filename(name) ==
  [j \in 1..Len(name) |-> IF name[j] = "-1" THEN "_1" ELSE name[j]]

\* normalize_language_code: a two-letter code is kept, a known three-letter
\* code is mapped, anything else is None.
normalize_language_code(code) ==
  IF code \in {<<"eng">>, <<"en">>} THEN <<"en">> ELSE <<>>

\* index of the k-th subtitle stream: the streams follow one video and one
\* audio stream.
StreamIndex(k) == k + 1

\* base_name of a stream
BaseName(stream, stream_idx, translation_enabled) ==
  LET iso_code == IF stream.language # <<>>
                  THEN normalize_language_code(stream.language) ELSE <<>>
  IN IF translation_enabled /\ iso_code # <<>> THEN iso_code
     ELSE IF stream.language # <<>> THEN sanitize_filename(stream.language)
     ELSE IF stream.title # <<>> THEN sanitize_filename(stream.title)
     ELSE <<"subtitle_" \o ToString(stream_idx)>>

\* The while loop on counter: the first base_<counter> that is not used.
RECURSIVE CountedName(_, _, _)
CountedName(base_name, used_names, counter) ==
  LET final_name == Append(base_name, "_" \o ToString(counter))
  IN IF final_name \in used_names
     THEN CountedName(base_name, used_names, counter + 1)
     ELSE final_name

\* Variant of the name that is not compared with the names in use.
FinalNameUnchecked(base_name, used_names) ==
  IF base_name = <<>> THEN <<"_1">> ELSE base_name

\* final_name of a stream
FinalName(base_name, used_names) ==
  IF base_name \in used_names \/ base_name = <<>>
  THEN CountedName(base_name, used_names, 1)
  ELSE base_name

\* AI_<lang>
AiName(lang) == <<"AI_" \o lang>>

\* Variant of the success branch that keeps every output.
SavedUnfiltered(outputs, non_empty) ==
  [k \in 1..Len(outputs) |-> outputs[k].final_name]

\* The success branch after ffmpeg: the outputs whose file is not empty.
Saved(outputs, non_empty) ==
  LET kept == SelectSeq(outputs, LAMBDA o : o.final_name \in non_empty)
  IN [k \in 1..Len(kept) |-> kept[k].final_name]

\* The iso codes of the outputs that were saved, None left out.
CoveredLanguages(available_subs) ==
  {available_subs[k].iso_code[1] :
     k \in {j \in 1..Len(available_subs) : available_subs[j].iso_code # <<>>}}

\* missing_langs of ensure_configured_languages
MissingLanguages(available_subs) ==
  SelectSeq(ConfiguredLanguages,
            LAMBDA lang : lang \notin CoveredLanguages(available_subs))

\* The names pushed for the missing languages whose translation was written.
RECURSIVE TranslatedNames(_, _)
TranslatedNames(missing_langs, written) ==
  IF missing_langs = <<>> THEN <<>>
  ELSE (IF Head(missing_langs) \in written
        THEN <<AiName(Head(missing_langs))>> ELSE <<>>)
         \o TranslatedNames(Tail(missing_langs), written)

\* extract_subtitles_to_vtt is called: the streams were probed and the
\* captions directory holds no track.
SubsInit ==
  /\ WorkerAtRest
  /\ ladder = NotCalled
  /\ chunks = NotCalled
  /\ mpd = NotCalled
  /\ ts = NotCalled
  /\ whisper = NotCalled
  /\ dash = NotCalled
  /\ detect = NotCalled
  /\ silence = NotCalled
  /\ sprite = NotCalled
  /\ translate = NotCalled
  /\ encode = NotCalled
  /\ paths = NotCalled
  /\ \E n \in 0..MaxStreams, translation_enabled \in BOOLEAN :
       \E streams \in [1..n -> [language : SubLanguages, title : SubTitles]] :
         subs = [phase |-> "probed",
                 subtitle_streams |-> streams,
                 translation_enabled |-> translation_enabled,
                 used_names |-> {},
                 outputs |-> <<>>,
                 files |-> {},
                 saved_files |-> <<>>,
                 available_subs |-> <<>>,
                 all_names |-> <<>>,
                 list |-> <<>>,
                 list_io |-> "none"]

\* No stream: generate_whisper_vtt names the transcript after the detected
\* language and saves it, or saves nothing.
WhisperFallback ==
  /\ subs.phase = "probed"
  /\ subs.subtitle_streams = <<>>
  /\ \E detected_lang \in DetectedLanguages, saved \in BOOLEAN :
       LET lang == IF subs.translation_enabled THEN detected_lang ELSE <<>>
           output_label == IF lang # <<>> THEN AiName(lang[1])
                           ELSE <<"AI_transcription">>
       IN subs' = [subs EXCEPT
                     !.phase = "saved",
                     !.files = IF saved THEN {output_label} ELSE {},
                     !.saved_files = IF saved THEN <<output_label>> ELSE <<>>,
                     !.available_subs =
                        IF saved
                        THEN <<[final_name |-> output_label, iso_code |-> lang]>>
                        ELSE <<>>]
  /\ UNCHANGED <<worker, ladder, chunks, mpd, ts, whisper, dash, detect, silence, sprite, translate, encode, paths>>

\* One iteration of the loop over the streams: the name of the output.
NameStream ==
  /\ subs.phase = "probed"
  /\ Len(subs.outputs) < Len(subs.subtitle_streams)
  /\ LET k == Len(subs.outputs) + 1
         stream == subs.subtitle_streams[k]
         base_name == BaseName(stream, StreamIndex(k), subs.translation_enabled)
         final_name == FinalName(base_name, subs.used_names)
     IN subs' = [subs EXCEPT
                   !.used_names = @ \cup {final_name},
                   !.outputs = Append(@,
                      [base_name |-> base_name,
                       final_name |-> final_name,
                       iso_code |-> IF stream.language # <<>>
                                    THEN normalize_language_code(stream.language)
                                    ELSE <<>>])]
  /\ UNCHANGED <<worker, ladder, chunks, mpd, ts, whisper, dash, detect, silence, sprite, translate, encode, paths>>

\* The single ffmpeg run: on success the outputs that are not empty are
\* saved and the others removed; on failure every output is removed.
ExtractAll ==
  /\ subs.phase = "probed"
  /\ subs.subtitle_streams # <<>>
  /\ Len(subs.outputs) = Len(subs.subtitle_streams)
  /\ \E success \in BOOLEAN :
       \E non_empty \in SUBSET {subs.outputs[k].final_name :
                                  k \in 1..Len(subs.outputs)} :
         /\ ~success => non_empty = {}
         /\ LET kept == SelectSeq(subs.outputs,
                                  LAMBDA o : o.final_name \in non_empty)
            IN subs' = [subs EXCEPT
                          !.phase = "saved",
                          !.files = non_empty,
                          !.saved_files = IF success
                                          THEN Saved(subs.outputs, non_empty)
                                          ELSE <<>>,
                          !.available_subs =
                             [k \in 1..Len(kept) |->
                                [final_name |-> kept[k].final_name,
                                 iso_code |-> kept[k].iso_code]]]
  /\ UNCHANGED <<worker, ladder, chunks, mpd, ts, whisper, dash, detect, silence, sprite, translate, encode, paths>>

\* ensure_configured_languages: a translation is written for some of the
\* missing languages.
EnsureLanguages ==
  /\ subs.phase = "saved"
  /\ subs.translation_enabled
  /\ subs.available_subs # <<>>
  /\ LET missing_langs == MissingLanguages(subs.available_subs)
     IN \E written \in SUBSET {missing_langs[k] : k \in 1..Len(missing_langs)} :
          subs' = [subs EXCEPT
                     !.phase = "list",
                     !.files = @ \cup {AiName(lang) : lang \in written},
                     !.all_names =
                        [k \in 1..Len(subs.available_subs) |->
                           subs.available_subs[k].final_name]
                          \o TranslatedNames(missing_langs, written)]
  /\ UNCHANGED <<worker, ladder, chunks, mpd, ts, whisper, dash, detect, silence, sprite, translate, encode, paths>>

\* Translation is not configured or nothing was saved.
NoTranslation ==
  /\ subs.phase = "saved"
  /\ ~(subs.translation_enabled /\ subs.available_subs # <<>>)
  /\ subs' = [subs EXCEPT !.phase = "list", !.all_names = subs.saved_files]
  /\ UNCHANGED <<worker, ladder, chunks, mpd, ts, whisper, dash, detect, silence, sprite, translate, encode, paths>>

\* create_list_txt
CreateListTxt ==
  /\ subs.phase = "list"
  /\ \E ok \in BOOLEAN :
       subs' = IF subs.all_names = <<>>
               THEN [subs EXCEPT !.phase = "done"]
               ELSE IF ok
               THEN [subs EXCEPT !.phase = "done", !.list_io = "written",
                                 !.list = subs.all_names]
               ELSE [subs EXCEPT !.phase = "done", !.list_io = "write_err"]
  /\ UNCHANGED <<worker, ladder, chunks, mpd, ts, whisper, dash, detect, silence, sprite, translate, encode, paths>>

SubsNext ==
  \/ WhisperFallback
  \/ NameStream
  \/ ExtractAll
  \/ EnsureLanguages
  \/ NoTranslation
  \/ CreateListTxt

SubsSpec == SubsInit /\ [][SubsNext]_vars

-----------------------------------------------------------------------------
\* The frame rate and the ladder encode commands of transcode_video, run on
\* their own inputs.  A command is the set of its ffmpeg options and the set
\* of the filters of its -vf graph.

\* avg_frame_rate of the source as numerator and denominator; 0/0 is unknown.
FrameRates ==
  {[num |-> 24, den |-> 1], [num |-> 30000, den |-> 1001],
   [num |-> 60, den |-> 1], [num |-> 120, den |-> 1], [num |-> 0, den |-> 0]}

\* fps_cap values drawn.
FpsCaps == {30, 60}

\* config.encoder
Encoders == {"nvenc", "qsv", "vaapi"}

\* fps: the rate as a fraction, 30 when the denominator is 0.
SourceFps(fr) == IF fr.den = 0 THEN [num |-> 30, den |-> 1] ELSE fr

\* framerate: fps_cap when fps > fps_cap, else fps.
CappedFramerate(fr, fps_cap) ==
  LET fps == SourceFps(fr)
  IN IF fps.num > fps_cap * fps.den THEN [num |-> fps_cap, den |-> 1] ELSE fps

\* The filters of the software tonemap chain.
TonemapFilters == {"zscale", "format", "tonemap"}

\* build_encoder_params: the options of hwaccel_args and of codec_params,
\* without the optional look-ahead and quality options.  The framerate
\* argument is read by no branch.
build_encoder_params(encoder, framerate, is_hdr) ==
  CASE encoder = "nvenc" ->
         [hwaccel |-> IF is_hdr THEN {"-hwaccel"}
                      ELSE {"-hwaccel", "-hwaccel_output_format"},
          params |-> {"-c:v", "-preset", "-tier", "-rc", "-cq", "-qmin", "-qmax"}]
    [] encoder = "qsv" ->
         [hwaccel |-> IF is_hdr THEN {}
                      ELSE {"-hwaccel", "-hwaccel_output_format", "-c:v"},
          params |-> {"-c:v", "-preset:v"}]
    [] OTHER ->
         [hwaccel |-> IF is_hdr THEN {} ELSE {"-hwaccel", "-vaapi_device"},
          params |-> {"-c:v", "-global_quality", "-qp", "-compression_level"}]

\* The command of one ladder entry.
LadderCommand(encoder, is_hdr, built) ==
  LET common == {"-nostdin", "-y", "-i", "-vf", "-an", "-f"}
  IN CASE encoder = "qsv" ->
            [options |-> common \cup {"-hwaccel", "-hwaccel_output_format",
                                      "-pix_fmt"} \cup built.params,
             filters |-> {"vpp_qsv"}]
       [] encoder = "nvenc" /\ is_hdr ->
            [options |-> common \cup {"-init_hw_device", "-filter_hw_device"}
                           \cup built.params,
             filters |-> TonemapFilters \cup {"scale"}]
       [] encoder = "nvenc" ->
            [options |-> common \cup built.hwaccel \cup built.params,
             filters |-> {"scale_cuda"}]
       [] encoder = "vaapi" /\ is_hdr ->
            [options |-> common \cup {"-vaapi_device"} \cup built.params,
             filters |-> TonemapFilters \cup {"scale", "format"}]
       [] OTHER ->
            [options |-> common \cup built.hwaccel \cup built.params,
             filters |-> {"scale_vaapi", "format"}]

\* transcode_video has opened the input; the plan has some entries.
EncodeInit ==
  /\ WorkerAtRest
  /\ ladder = NotCalled
  /\ chunks = NotCalled
  /\ mpd = NotCalled
  /\ ts = NotCalled
  /\ whisper = NotCalled
  /\ dash = NotCalled
  /\ detect = NotCalled
  /\ silence = NotCalled
  /\ sprite = NotCalled
  /\ translate = NotCalled
  /\ subs = NotCalled
  /\ paths = NotCalled
  /\ \E fr \in FrameRates, fps_cap \in FpsCaps, encoder \in Encoders,
        is_hdr \in BOOLEAN, n \in 1..MaxSteps :
       encode = [phase |-> "opened",
                 avg_frame_rate |-> fr,
                 fps_cap |-> fps_cap,
                 encoder |-> encoder,
                 is_hdr |-> is_hdr,
                 outputs |-> n,
                 framerate |-> [num |-> 0, den |-> 1],
                 built |-> [hwaccel |-> {}, params |-> {}],
                 commands |-> <<>>]

\* fps and framerate are computed from avg_frame_rate and fps_cap.
EncodeFramerate ==
  /\ encode.phase = "opened"
  /\ encode' = [encode EXCEPT
                  !.phase = "plan",
                  !.framerate = CappedFramerate(encode.avg_frame_rate,
                                                encode.fps_cap)]
  /\ UNCHANGED <<worker, ladder, chunks, mpd, ts, whisper, dash, detect, silence, sprite, translate, subs, paths>>

\* detect_hdr and build_encoder_params(config, framerate, &hdr_info)
EncodeParams ==
  /\ encode.phase = "plan"
  /\ encode' = [encode EXCEPT
                  !.phase = "commands",
                  !.built = build_encoder_params(encode.encoder,
                                                 encode.framerate,
                                                 encode.is_hdr)]
  /\ UNCHANGED <<worker, ladder, chunks, mpd, ts, whisper, dash, detect, silence, sprite, translate, subs, paths>>

\* One iteration of the loop over the plan: the command is built and its
\* blocking task is spawned.
EncodeCommand ==
  /\ encode.phase = "commands"
  /\ Len(encode.commands) < encode.outputs
  /\ encode' = [encode EXCEPT !.commands =
       Append(@, LadderCommand(encode.encoder, encode.is_hdr, encode.built))]
  /\ UNCHANGED <<worker, ladder, chunks, mpd, ts, whisper, dash, detect, silence, sprite, translate, subs, paths>>

\* Every command of the plan was issued.
EncodeIssued ==
  /\ encode.phase = "commands"
  /\ Len(encode.commands) = encode.outputs
  /\ encode' = [encode EXCEPT !.phase = "issued"]
  /\ UNCHANGED <<worker, ladder, chunks, mpd, ts, whisper, dash, detect, silence, sprite, translate, subs, paths>>

EncodeNext ==
  \/ EncodeFramerate
  \/ EncodeParams
  \/ EncodeCommand
  \/ EncodeIssued

EncodeSpec == EncodeInit /\ [][EncodeNext]_vars

-----------------------------------------------------------------------------
\* The arms process_video and process_audio join, the tasks the transcode arm
\* spawns, and the paths each of them writes, renames or deletes.  A path is
\* the sequence of its pieces below upload/<id>_processing.

\* Most outputs of the quality ladder drawn.
MaxLadder == 2
\* Most audio streams of the source drawn.
MaxAudioStreams == 2
\* Most sprite files drawn.
MaxSpriteFiles == 2
\* config.quality_steps[i].label values drawn; the configuration is read
\* without any check that labels differ.
LabelChoices == {"half_resolution", "quarter_resolution"}
\* The labels of the outputs of the ladder, in order.
LabelLists == UNION {[1..n -> LabelChoices] : n \in 1..MaxLadder}
\* upload/<id>, the raw upload.
RawUpload == <<"..", "upload">>
\* output_file of one ladder output.
LadderFile(label) == <<"output_", label, ".webm">>
\* output_file of transcode_audio_streams_for_dash.
AudioStreamFile(audio_idx) == <<"audio_stream_", ToString(audio_idx), ".webm">>
\* sprite_path of one sprite task.
SpritePath(sprite_idx) ==
  <<"previews", "preview_sprite_", ToString(sprite_idx), ".avif">>
\* What the DASH muxer writes for the representations 0..(n - 1): the
\* manifest, and the init and media segments of each representation.
DashFiles(n) ==
  {<<"video", "video.mpd">>}
    \cup {<<"video", "init_", ToString(r), ".webm">> : r \in 0..(n - 1)}
    \cup {<<"video", "chunk_", ToString(r), ".webm">> : r \in 0..(n - 1)}
\* The paths of extract_subtitles_to_vtt: with subtitle streams the stream
\* files, the translated file and list.txt; without, the files of
\* generate_whisper_vtt.
SubtitlePaths(has_streams) ==
  IF has_streams
  THEN {<<"captions", "English", ".vtt">>, <<"captions", "AI_cs", ".vtt">>,
        <<"captions", "list.txt">>}
  ELSE {<<"lang_detect_temp.wav">>, <<"captions", "temp_audio.wav">>,
        <<"captions", "whisper_chunk_", "0", ".wav">>,
        <<"captions", "AI_en", ".vtt">>, <<"captions", "AI_cs", ".vtt">>,
        <<"captions", "list.txt">>}
\* The arms and tasks of one concept: the two blocking arms of the join, and
\* for a video the ladder encodes, the audio encodes, the muxing and clean-up
\* of the transcode arm, the post-processing tasks, the sprite tasks and the
\* writing of previews.vtt; for an audio file the main transcode, the
\* additional streams and the three cover extractions.
Units(c) ==
  {<<"subs", 0>>, <<"chapters", 0>>}
    \cup (IF c.kind = "video"
          THEN {<<"ladder", k>> : k \in 1..Len(c.labels)}
                 \cup {<<"dash_audio", k>> : k \in 0..(c.audio_streams - 1)}
                 \cup {<<"mux", 0>>, <<"thumbnail_jpg", 0>>,
                       <<"thumbnail_avif", 0>>, <<"showcase", 0>>,
                       <<"previews_vtt", 0>>}
                 \cup {<<"sprite", k>> : k \in 0..(c.sprite_files - 1)}
          ELSE {<<"audio_main", 0>>, <<"cover", 0>>, <<"cover_thumbnail", 0>>,
                <<"cover_jpg", 0>>}
                 \cup {<<"additional", k>> : k \in 2..c.audio_streams})
\* The stages of the transcode arm, in order; the tasks of a stage are spawned
\* together and awaited before the next stage.
Stages(kind) ==
  IF kind = "video"
  THEN <<"ladder", "dash_audio", "mux", "post", "previews_vtt", "end">>
  ELSE <<"audio_main", "extras", "end">>
\* The stage a task of the transcode arm belongs to.
StageOf(u) ==
  CASE u[1] \in {"thumbnail_jpg", "thumbnail_avif", "showcase", "sprite"} -> "post"
    [] u[1] \in {"additional", "cover", "cover_thumbnail", "cover_jpg"} -> "extras"
    [] u[1] \in {"subs", "chapters"} -> "join"
    [] OTHER -> u[1]
\* The paths a task writes, renames or deletes while it runs.
Touches(c, u) ==
  CASE u[1] = "subs" -> SubtitlePaths(c.has_streams)
    [] u[1] = "chapters" -> {<<"chapters.vtt">>}
    [] u[1] = "ladder" -> {LadderFile(c.labels[u[2]])}
    [] u[1] = "dash_audio" -> {AudioStreamFile(u[2])}
    [] u[1] = "mux" ->
         DashFiles(Len(c.labels) + c.audio_streams)
           \cup {<<"video", "video.webm">>}
           \cup {LadderFile(c.labels[k]) : k \in 1..Len(c.labels)}
           \cup {AudioStreamFile(k) : k \in 0..(c.audio_streams - 1)}
    [] u[1] = "thumbnail_jpg" -> {<<"thumbnail.jpg">>}
    [] u[1] = "thumbnail_avif" -> {<<"thumbnail.avif">>}
    [] u[1] = "showcase" -> {<<"showcase.avif">>}
    [] u[1] = "sprite" -> {SpritePath(u[2])}
    [] u[1] = "previews_vtt" -> {<<"previews", "previews.vtt">>}
    [] u[1] = "audio_main" -> {<<"audio.", "ogg">>}
    [] u[1] = "additional" -> {<<"audio_", ToString(u[2]), ".ogg">>}
    [] u[1] = "cover" -> {<<"picture.avif">>}
    [] u[1] = "cover_thumbnail" -> {<<"thumbnail.avif">>}
    [] u[1] = "cover_jpg" -> {<<"thumbnail.jpg">>}
\* The tasks of the stage the transcode arm is in.
StageUnits(p) == {u \in DOMAIN p.status : StageOf(u) = p.stage}
\* The stage after the one the transcode arm is in.
NextStage(p) ==
  LET stages == Stages(p.kind)
      k == CHOOSE j \in 1..Len(stages) : stages[j] = p.stage
  IN stages[k + 1]

\* process_video or process_audio has created the processing directory and
\* enters the join: the subtitle arm and the chapter arm run, the transcode
\* arm is about to start its first stage.
PathsInit ==
  /\ WorkerAtRest
  /\ ladder = NotCalled
  /\ chunks = NotCalled
  /\ mpd = NotCalled
  /\ ts = NotCalled
  /\ whisper = NotCalled
  /\ dash = NotCalled
  /\ detect = NotCalled
  /\ silence = NotCalled
  /\ sprite = NotCalled
  /\ translate = NotCalled
  /\ subs = NotCalled
  /\ encode = NotCalled
  /\ \E kind \in {"video", "audio"}, labels \in LabelLists,
        audio_streams \in 1..MaxAudioStreams,
        sprite_files \in 1..MaxSpriteFiles, has_streams \in BOOLEAN :
       LET c == [kind |-> kind,
                 labels |-> IF kind = "video" THEN labels ELSE <<>>,
                 audio_streams |-> audio_streams,
                 sprite_files |-> IF kind = "video" THEN sprite_files ELSE 0,
                 has_streams |-> has_streams]
       IN /\ kind = "audio" => labels = <<"half_resolution">> /\ sprite_files = 1
          /\ paths = [phase |-> "join",
                      kind |-> c.kind,
                      labels |-> c.labels,
                      audio_streams |-> c.audio_streams,
                      sprite_files |-> c.sprite_files,
                      has_streams |-> c.has_streams,
                      stage |-> Stages(kind)[1],
                      status |-> [u \in Units(c) |->
                                    IF StageOf(u) = "join"
                                    THEN "running" ELSE "unspawned"],
                      result |-> "none",
                      raw |-> TRUE]

\* The transcode arm spawns the tasks of its stage, or does the work of the
\* stage itself.
SpawnStage ==
  /\ paths.phase = "join"
  /\ StageUnits(paths) # {}
  /\ \A u \in StageUnits(paths) : paths.status[u] = "unspawned"
  /\ paths' = [paths EXCEPT
                 !.status = [u \in DOMAIN @ |->
                               IF u \in StageUnits(paths)
                               THEN "running" ELSE @[u]]]
  /\ UNCHANGED <<worker, ladder, chunks, mpd, ts, whisper, dash, detect, silence, sprite, translate, subs, encode>>

\* A task or arm runs to its end.
UnitEnd(u) ==
  /\ paths.phase = "join"
  /\ paths.status[u] = "running"
  /\ paths' = [paths EXCEPT !.status[u] = "finished"]
  /\ UNCHANGED <<worker, ladder, chunks, mpd, ts, whisper, dash, detect, silence, sprite, translate, subs, encode>>

\* The DASH muxing fails and transcode_video returns Err.
TranscodeFails ==
  /\ paths.phase = "join"
  /\ paths.stage = "mux"
  /\ paths.status[<<"mux", 0>>] = "running"
  /\ paths' = [paths EXCEPT
                 !.status[<<"mux", 0>>] = "finished",
                 !.stage = "end",
                 !.result = "err"]
  /\ UNCHANGED <<worker, ladder, chunks, mpd, ts, whisper, dash, detect, silence, sprite, translate, subs, encode>>

\* Every task of the stage has been awaited: the transcode arm goes on, and
\* returns Ok after its last stage.
AwaitStage ==
  /\ paths.phase = "join"
  /\ paths.stage # "end"
  /\ \A u \in StageUnits(paths) : paths.status[u] = "finished"
  /\ paths' = [paths EXCEPT
                 !.stage = NextStage(paths),
                 !.result = IF NextStage(paths) = "end" THEN "ok" ELSE @]
  /\ UNCHANGED <<worker, ladder, chunks, mpd, ts, whisper, dash, detect, silence, sprite, translate, subs, encode>>

\* The join returns once the three arms have; after Ok the concept is marked
\* processed and the raw upload removed, after Err it is kept.
JoinArms ==
  /\ paths.phase = "join"
  /\ paths.stage = "end"
  /\ paths.status[<<"subs", 0>>] = "finished"
  /\ paths.status[<<"chapters", 0>>] = "finished"
  /\ paths' = [paths EXCEPT
                 !.phase = "joined",
                 !.raw = paths.result # "ok"]
  /\ UNCHANGED <<worker, ladder, chunks, mpd, ts, whisper, dash, detect, silence, sprite, translate, subs, encode>>

PathsNext ==
  \/ SpawnStage
  \/ \E u \in DOMAIN paths.status : UnitEnd(u)
  \/ TranscodeFails
  \/ AwaitStage
  \/ JoinArms

PathsSpec == PathsInit /\ [][PathsNext]_vars

----------------------------------------------------------------------------
Next ==
  \/ Tick
  \/ PollOk
  \/ PollErr
  \/ Backoff
  \/ LoopEnd
  \/ \E c \in Concepts : HandleMissing(c)
  \/ \E c \in Concepts, t \in DetectResults, d \in DeclaredTypes :
        DispatchUnknown(c, t, d)
  \/ \E c \in Concepts, t \in DetectResults, d \in DeclaredTypes :
        DispatchPipeline(c, t, d)
  \/ GiveupUpdate
  \/ \E a \in Arms : ArmFinish(a)
  \/ TranscodeOpen
  \/ TranscodePlan
  \/ TranscodeLadder
  \/ TranscodeDash
  \/ JoinVideoAudio
  \/ JoinPicture
  \/ JoinPdf
  \/ Update
  \/ Remove
  \/ Rename

Spec == Init /\ [][Next]_vars

\* Initial states of the fair specification: the first row has lost its
\* upload, every other row has one.
FairInit == Init /\ raw = [c \in Concepts |-> c # 1]

\* The runtime keeps polling the task of process() and the blocking pool
\* keeps running its closures: no enabled step is postponed forever.
FairSpec == FairInit /\ [][Next]_vars /\ WF_vars(Next)

TypeOK ==
  /\ processed \in [Concepts -> BOOLEAN]
  /\ procdir \in [Concepts -> BOOLEAN]
  /\ docpdf \in [Concepts -> BOOLEAN]
  /\ giveup \in [Concepts -> BOOLEAN]
  /\ settings \in BOOLEAN
  /\ actual \in DeclaredTypes \cup {"none"}
  /\ raw \in [Concepts -> BOOLEAN]
  /\ pc \in {"tick", "poll", "backoff", "loop", "giveup_update", "join",
             "update", "remove", "rename", "panicked"}
  /\ batch \subseteq Concepts
  /\ cur \in Concepts \cup {0}
  /\ arm \in [Arms -> ArmStates]

----------------------------------------------------------------------------
\* C1: for a concept dispatched to a pipeline, the processed = true update is
\* issued only after the pipeline's mandatory step succeeded; when the
\* mandatory step failed no update is issued for it in that poll.
C1_CommitOnlyAfterMandatory ==
  hist.path \in PipelineTypes =>
    /\ hist.issued => hist.mandatory = "ok"
    /\ pc \in {"update", "remove", "rename"} => hist.mandatory = "ok"
    /\ hist.mandatory = "failed" => ~hist.issued /\ ~processed[cur]

\* A pipeline committed after its mandatory step succeeded.
C1_Witness ==
  /\ hist.path \in PipelineTypes
  /\ hist.mandatory = "ok"
  /\ hist.issued
  /\ processed[cur]

C3_MissingInput ==
  hist.path = "missing" =>
    /\ ~hist.classified
    /\ ~hist.created
    /\ ~procdir[cur]
    /\ hist.mandatory = "none"
    /\ \A a \in Arms : arm[a] = "idle"
    /\ pc \in {"giveup_update", "loop", "tick", "poll", "backoff"}
    /\ pc # "giveup_update" => hist.issued /\ hist.result = "giveup"

\* A concept without upload was marked processed and the loop went on.
C3_Witness ==
  /\ hist.path = "missing"
  /\ hist.issued
  /\ processed[cur]
  /\ pc = "loop"

\* Positions of process() between the handling of two concepts.
BetweenConcepts == {"tick", "poll", "backoff", "loop"}

\* C4: once the worker has finished handling a concept, a processed concept
\* has no raw upload left unless it was marked by a terminal give-up, for
\* every outcome of the delete or rename that follows the commit.
C4_ProcessedImpliesRawGone ==
  pc \in BetweenConcepts =>
    \A c \in Concepts : processed[c] => (~raw[c] \/ giveup[c])

\* C5: the raw upload is deleted or moved only when the concept's processed
\* flag is already true; an attempt whose update failed leaves the upload in
\* place and the concept unprocessed.
C5_RawKeptUntilCommitted ==
  /\ [][\A c \in Concepts : (raw[c] /\ ~raw'[c]) => processed[c]]_vars
  /\ [](hist.path \in PipelineTypes /\ ~processed[cur] =>
          raw[cur] /\ pc \notin {"remove", "rename"})

\* A pipeline removed the upload after its commit.
C5_Witness ==
  /\ hist.path \in PipelineTypes
  /\ hist.result = "ok"
  /\ processed[cur]
  /\ ~raw[cur]

\* C6: for video and audio the commit and the deletion of the upload happen
\* only when the subtitle arm, the chapter arm and the transcode arm have
\* all ended.
C6_CommitAfterAllArms ==
  /\ [][\A c \in Concepts :
           (actual \in {"video", "audio"} /\ cur = c /\
            (processed[c] # processed'[c] \/ raw[c] # raw'[c])) =>
              \A a \in VideoAudioArms : arm[a] \notin Running]_vars
  /\ [](pc \in {"update", "remove"} /\ actual \in {"video", "audio"} =>
          \A a \in VideoAudioArms : arm[a] \notin Running)

\* A video or audio concept was committed although a side arm had failed.
C6_Witness ==
  /\ pc = "remove"
  /\ actual \in {"video", "audio"}
  /\ hist.sidefail
  /\ processed[cur]

\* C7: at most one concept is in flight: between two concepts, and when a
\* poll starts, no task of a pipeline is running, and every running task
\* belongs to the concept being handled.
C7_OneConceptInFlight ==
  /\ pc \in BetweenConcepts \cup {"giveup_update"} =>
       \A a \in Arms : arm[a] \notin Running
  /\ pc \in {"tick", "poll", "backoff"} => batch = {}
  /\ pc \in {"join", "update", "remove", "rename", "giveup_update"} =>
       cur \in Concepts /\ cur \notin batch
  /\ (\E a \in Arms : arm[a] \in Running) /\ pc # "panicked" =>
       pc = "join" /\ actual = hist.path

\* A pipeline has ended and the next concept of the batch is still to come.
C7_Witness ==
  /\ pc = "loop"
  /\ hist.path \in PipelineTypes
  /\ hist.result # "none"
  /\ batch # {}

\* C8: no failure while processing a concept terminates the worker loop.
C8_WorkerNeverTerminates == pc # "panicked"

\* C9: an attempt that failed leaves the concept unprocessed with its raw
\* upload in place (so that the next successful poll selects it again).
C9_FailedAttemptKeepsConcept ==
  hist.result = "err" => ~processed[cur] /\ raw[cur]

\* C10: a failed poll query handles no concept and changes neither the store
\* nor any file, and is eventually followed by another poll attempt.
C10_PollFailureRetried ==
  /\ [][pc = "poll" /\ pc' = "backoff" =>
          UNCHANGED <<processed, raw, procdir, docpdf, batch, cur, arm,
                      giveup>>]_vars
  /\ [][pc = "backoff" => pc' = "tick" /\
          UNCHANGED <<processed, raw, procdir, docpdf, batch, cur, arm,
                      giveup>>]_vars
  /\ (pc = "backoff") ~> (pc = "poll")

\* The poll query failed and the worker is in its backoff.
C10_Witness == pc = "backoff"

\* The worker is in the middle of handling concept c.
InHandling(c) == cur = c /\ pc \notin BetweenConcepts

\* C11: the worker changes a store row only by setting processed to true
\* (never back to false, no row added or deleted); a processed concept is
\* never selected by a later poll, and once the handling that committed it
\* is over none of its files is created, changed or deleted.
C11_ProcessedIsFinal ==
  /\ [][/\ DOMAIN processed' = DOMAIN processed
        /\ \A c \in Concepts : processed[c] => processed'[c]
        /\ \A c \in Concepts :
             (processed[c] # processed'[c]) => InHandling(c)
        /\ \A c \in Concepts :
             (processed[c] /\ ~InHandling(c)) =>
                /\ raw'[c] = raw[c]
                /\ procdir'[c] = procdir[c]
                /\ docpdf'[c] = docpdf[c]
                /\ cur' = cur \/ cur' # c]_vars
  /\ [](\A c \in Concepts : processed[c] => c \notin batch)

\* A poll has selected its batch while a concept that was given up with its
\* upload still in place stays out of it.
C11_Witness ==
  /\ pc = "loop"
  /\ batch # {}
  /\ \E c \in Concepts : processed[c] /\ raw[c] /\ c \notin batch /\ cur # c

\* C12: for a PDF concept the decision to commit depends only on thumbnail
\* generation, whatever way text extraction ended.
C12_PdfCommitOnlyThumbnail ==
  [][(pc = "join" /\ actual = "document_pdf" /\ pc' # "join") =>
        (pc' = "update" <=> arm["pdf_thumbnails"] = "ok")]_vars

\* C13: the source document of a PDF concept is never deleted: it is renamed
\* to document.pdf only after the update succeeded, and exists at exactly one
\* of the two paths at every moment.
C13_PdfSourceKept ==
  /\ [](hist.path = "document_pdf" => (raw[cur] # docpdf[cur]))
  /\ [][\A c \in Concepts :
          /\ (docpdf[c] # docpdf'[c]) =>
                processed[c] /\ raw[c] /\ ~raw'[c] /\ docpdf'[c]
          /\ (hist.path = "document_pdf" /\ cur = c /\ raw[c] /\ ~raw'[c]) =>
                docpdf'[c]]_vars

\* A PDF was committed and moved to document.pdf.
C13_Witness ==
  /\ hist.path = "document_pdf"
  /\ processed[cur]
  /\ docpdf[cur]
  /\ ~raw[cur]

\* C14: for video and audio the commit decision equals the result of the
\* transcode arm, however the subtitle arm and the chapter arm ended.
C14_SideArmsNeverDecide ==
  [][(pc = "join" /\ actual \in {"video", "audio"} /\ pc' \in {"update", "loop"})
        => (pc' = "update" <=> arm["transcode"] = "ok")]_vars

\* The commit was decided although the subtitle or chapter arm had failed.
C14_Witness ==
  /\ pc = "update"
  /\ actual \in {"video", "audio"}
  /\ hist.sidefail
  /\ hist.mandatory = "ok"

\* C15: every entry of the encoding plan, the first included, has an even
\* width and an even height, both at least min_dimension.
C15_LadderEvenAndClamped ==
  ladder.phase \in {"loop", "done"} =>
    \A k \in 1..Len(ladder.outputs) :
      /\ ladder.outputs[k].w % 2 = 0
      /\ ladder.outputs[k].h % 2 = 0
      /\ ladder.outputs[k].w >= ladder.in.min_dimension
      /\ ladder.outputs[k].h >= ladder.in.min_dimension

\* C16: every entry of the encoding plan has an aspect ratio within 0.01 of
\* the source's, and no (width, height) pair is in the plan twice.
C16_LadderRatioAndDistinct ==
  ladder.phase \in {"loop", "done"} =>
    /\ \A k \in 1..Len(ladder.outputs) :
         LET e == ladder.outputs[k]
         IN /\ e.h > 0
            /\ AbsDiff(e.w * ladder.in.original_height,
                       ladder.in.original_width * e.h) * 100
                 <= e.h * ladder.in.original_height
    /\ \A k, l \in 1..Len(ladder.outputs) :
         (ladder.outputs[k].w = ladder.outputs[l].w
            /\ ladder.outputs[k].h = ladder.outputs[l].h) => k = l

\* The loop kept the source size and skipped a later candidate whose ratio
\* had drifted.
C16_Witness ==
  /\ ladder.phase = "done"
  /\ Len(ladder.outputs) >= 1
  /\ ladder.skipped >= 1

\* C17: for every duration above target_chunk_secs and every silence list
\* the chunk boundaries start at 0, end at the duration, are contiguous, and
\* every chunk has a positive length.
C17_ChunksCoverAudio ==
  chunks.phase = "done" =>
    LET b == chunks.boundaries
    IN /\ Len(b) >= 1
       /\ b[1].start = 0
       /\ b[Len(b)].end = chunks.duration
       /\ \A k \in 1..(Len(b) - 1) : b[k].end = b[k + 1].start
       /\ \A k \in 1..Len(b) : b[k].start < b[k].end

\* Three chunks were cut, the first at a silence midpoint.
C17_Witness ==
  /\ chunks.phase = "done"
  /\ Len(chunks.boundaries) = 3
  /\ \E k \in 1..Len(chunks.silences) :
       midpoint(chunks.silences[k]) = chunks.boundaries[1].end

\* C18: with 0 < target_chunk_secs <= max_chunk_secs every chunk, the last
\* included, is at most max_chunk_secs long.
C18_ChunksAtMostMax ==
  (chunks.phase = "done" /\ 0 < chunks.target_secs
      /\ chunks.target_secs <= chunks.max_secs) =>
    \A k \in 1..Len(chunks.boundaries) :
      chunks.boundaries[k].end - chunks.boundaries[k].start <= chunks.max_secs

\* The silences of the last iteration whose midpoint lies in [from, to].
MidpointsWithin(from, to) ==
  {k \in 1..Len(chunks.silences) :
     midpoint(chunks.silences[k]) >= from /\ midpoint(chunks.silences[k]) <= to}

\* The split of the last iteration is the midpoint of a silence of the set
\* that is as close to the target as any other of the set.
ClosestOf(window) ==
  \E k \in window :
    /\ chunks.split_at = midpoint(chunks.silences[k])
    /\ \A j \in window :
         AbsDiff(midpoint(chunks.silences[k]), chunks.last_pos + chunks.target_secs)
           <= AbsDiff(midpoint(chunks.silences[j]), chunks.last_pos + chunks.target_secs)

LabelLines == {j \in 1..Len(mpd.file) : mpd.file[j].tag = "<Label"}

\* The audio AdaptationSet opening lines of the manifest file.
AudioSetLines ==
  {j \in 1..Len(mpd.file) :
     mpd.file[j].tag = "<AdaptationSet" /\ mpd.file[j].contentType = "audio"}

\* Every audio AdaptationSet line of the file has a <Label> as its next line,
\* and every <Label> follows an audio AdaptationSet line.
LabelUnderEachAudioSet ==
  /\ \A j \in AudioSetLines : j + 1 \in LabelLines
  /\ \A j \in LabelLines : j - 1 \in AudioSetLines

\* post_process_dash_manifest returned, no file operation failed, and the
\* manifest has as many audio AdaptationSets as there are audio tracks.
MpdReturned ==
  /\ mpd.phase = "done"
  /\ mpd.io \in {"none", "written"}
  /\ mpd.audio_sets = Len(mpd.audio_info)

ReturnsEarly ==
  /\ Len(mpd.audio_info) <= 1
  /\ \A j \in 1..Len(mpd.audio_info) : mpd.audio_info[j].title = <<>>

C21_LabelsDistinct ==
  mpd.phase \in {"lines", "done"} /\ mpd.io # "read_err" =>
    \A j, k \in 1..Len(mpd.labels) : mpd.labels[j] = mpd.labels[k] => j = k

\* C29: every recorded split point leaves at least 30 s of audio, so the final
\* chunk of a split audio is at least 30 s long; a candidate closer than 30 s
\* to the end is not recorded and ends the selection.
C29_TailAtLeastThirty ==
  /\ [](chunks.phase # "idle" =>
          \A k \in 1..Len(chunks.split_points) :
            chunks.duration - chunks.split_points[k] >= 30)
  /\ []((chunks.phase = "done" /\ Len(chunks.boundaries) >= 2) =>
          LET last == chunks.boundaries[Len(chunks.boundaries)]
          IN last.end - last.start >= 30)
  /\ [][(chunks.phase = "loop" /\ chunks'.iterations > chunks.iterations
           /\ chunks.duration - chunks'.split_at < 30) =>
          (chunks'.split_points = chunks.split_points
             /\ chunks'.phase = "returned")]_vars

\* After at least one recorded split a candidate was dropped for being too
\* close to the end.
C29_Witness ==
  /\ chunks.phase = "done"
  /\ Len(chunks.split_points) >= 1
  /\ chunks.iterations > Len(chunks.split_points)
  /\ chunks.duration - chunks.split_at < 30

\* C22: for every well-formed timestamp t, formatting the parsed t gives t
\* back, so offset_vtt with offset 0 leaves every timing line unchanged.
C22_TimestampRoundTrip ==
  (ts.phase = "done" /\ ts.offset_secs = 0) =>
    (ts.out_start = ts.start /\ ts.out_end = ts.end)

\* A timing line from 00:59:59.999 to 99:00:00.001 went through offset 0.
C22_Witness ==
  /\ ts.phase = "done"
  /\ ts.timing
  /\ ts.offset_secs = 0
  /\ ts.start = [hh |-> 0, mm |-> 59, ss |-> 59, ms |-> 999]
  /\ ts.end = [hh |-> 99, mm |-> 0, ss |-> 0, ms |-> 1]

\* The upload is not a PDF, every probe command ran, and the file has the
\* given streams.
Probed(has_video, has_audio) ==
  /\ detect.phase = "done"
  /\ ~detect.in.pdf
  /\ detect.in.has_video = has_video
  /\ detect.in.has_audio = has_audio
  /\ detect.in.duration_ok
  /\ detect.in.frames_ok
  /\ detect.in.info_ok
  /\ detect.in.fallback_ok
  /\ detect.in.duration >= 0

\* The frame rate of the probed file is known and positive.
RateKnown ==
  /\ detect.in.rate.num > 0
  /\ detect.in.rate.den > 0

\* duration x fps exceeds n frames, as real numbers.
RateRuleExceeds(n) ==
  /\ RateKnown
  /\ detect.in.duration * detect.in.rate.num > n * 10 * detect.in.rate.den

\* The whole number of frames in duration x fps exceeds n.
WholeFramesExceed(n) ==
  /\ RateKnown
  /\ (detect.in.duration * detect.in.rate.num) \div (10 * detect.in.rate.den) > n

\* nb_frames was read and is greater than 1.
ManyFrames == detect.in.nb_frames >= 0 /\ detect.in.nb_frames > 1

\* C24 as stated: with a video and an audio stream and duration > 1.0 s the
\* verdict is video when nb_frames > 1, and otherwise (nb_frames at most 1 or
\* unavailable) video when duration x fps > 5 frames; audio only when neither
\* rule gives video; for duration <= 1.0 s the verdict is audio.
C24_Original ==
  Probed(TRUE, TRUE) =>
    IF detect.in.duration <= 10
    THEN detect.detected_type = "audio"
    ELSE /\ ManyFrames => detect.detected_type = "video"
         /\ RateRuleExceeds(5) => detect.detected_type = "video"
         /\ detect.detected_type = "audio" => (~ManyFrames /\ ~RateRuleExceeds(5))

\* C24 amended: for duration <= 1.0 s the verdict is audio; above it a frame
\* count that can be read decides alone (video when > 1, audio otherwise);
\* when it is unavailable the verdict is video when the whole number of frames
\* in duration x fps exceeds 5, audio otherwise; when the frame rate is
\* unavailable too, video when duration > 5 s, audio otherwise.
C24_Amended ==
  Probed(TRUE, TRUE) =>
    detect.detected_type =
      IF detect.in.duration <= 10 THEN "audio"
      ELSE IF detect.in.nb_frames >= 0
           THEN IF detect.in.nb_frames > 1 THEN "video" ELSE "audio"
      ELSE IF RateKnown
           THEN IF WholeFramesExceed(5) THEN "video" ELSE "audio"
      ELSE IF detect.in.duration > 50 THEN "video" ELSE "audio"

\* A file with both streams, 60 s long, whose frame count reads 1 although
\* duration x fps is far above 5, was classified as audio.
C24_Witness ==
  /\ Probed(TRUE, TRUE)
  /\ detect.in.duration = 600
  /\ detect.in.nb_frames = 1
  /\ RateRuleExceeds(5)
  /\ detect.detected_type = "audio"

\* C25 as stated: with a video stream alone the verdict is video when
\* nb_frames > 1 or duration x fps > 1 frame (also when nb_frames reads 1),
\* picture when neither holds, and when neither the frame count nor the frame
\* rate can be read picture if duration <= 0.1 s and video otherwise.
C25_Original ==
  Probed(TRUE, FALSE) =>
    IF detect.in.nb_frames < 0 /\ ~RateKnown
    THEN detect.detected_type =
           IF detect.in.duration <= 1 THEN "picture" ELSE "video"
    ELSE detect.detected_type =
           IF ManyFrames \/ RateRuleExceeds(1) THEN "video" ELSE "picture"

\* C25 amended: with a video stream alone a frame count that can be read
\* decides alone (video when > 1, picture otherwise); when it is unavailable
\* the verdict is video when the whole number of frames in duration x fps
\* exceeds 1, picture otherwise (also for duration 0); when the frame rate is
\* unavailable too, picture if duration <= 0.1 s and video otherwise.
C25_Amended ==
  Probed(TRUE, FALSE) =>
    detect.detected_type =
      IF detect.in.nb_frames >= 0
      THEN IF detect.in.nb_frames > 1 THEN "video" ELSE "picture"
      ELSE IF RateKnown /\ detect.in.duration > 0
           THEN IF WholeFramesExceed(1) THEN "video" ELSE "picture"
      ELSE IF detect.in.duration <= 1 THEN "picture" ELSE "video"

\* A file with a video stream alone whose frame count reads 1 although
\* duration x fps is above 1 was classified as a picture.
C25_Witness ==
  /\ Probed(TRUE, FALSE)
  /\ detect.in.nb_frames = 1
  /\ RateRuleExceeds(1)
  /\ detect.detected_type = "picture"

\* C23: a ladder step whose transcode exited non-zero or could not be spawned
\* is not among the inputs of the DASH command, whether or not it left an
\* output file; only successfully transcoded steps are muxed.
C23_FailedStepExcluded ==
  dash.phase = "inputs" =>
    \A j \in 1..Len(dash.inputs) : dash.status[dash.inputs[j]] = "ok"

\* C26: the time-out of every chunk sent to the STT service is
\* ceil(2 x that chunk's own duration), also after an earlier chunk's
\* extraction failed.
C26_TimeoutOfOwnChunk ==
  whisper.phase # "idle" =>
    \A j \in 1..Len(whisper.requests) :
      LET r == whisper.requests[j]
          own == whisper.boundaries[r.path]
      IN r.timeout_secs * 4000 >= 2 * (own.end - own.start)
         /\ (r.timeout_secs - 1) * 4000 < 2 * (own.end - own.start)

\* The cue lines of the merged transcript.
CueLines ==
  {j \in 1..Len(whisper.merged_vtt) : whisper.merged_vtt[j].kind = "cue"}

\* HH:MM:SS.mmm as a number of milliseconds.
Millis(t) == ((t.hh * 3600 + t.mm * 60 + t.ss) * 1000) + t.ms

\* A timestamp of the transcript is the chunk-relative timestamp plus the
\* start of the chunk, to the millisecond.
ShiftedBy(out, in, start) ==
  AbsDiff(4 * Millis(out), 4 * Millis(in) + start) < 4

\* C27: in the merged transcript every cue of a transcribed chunk is shifted
\* by that chunk's start, chunks appear in chunk order under one WEBVTT
\* header, and a chunk that was not extracted or not transcribed adds no cue
\* and changes no other chunk's offset.
C27_MergedTranscript ==
  whisper.phase # "idle" =>
    /\ whisper.merged_vtt[1].kind = "WEBVTT"
    /\ \A j \in 2..Len(whisper.merged_vtt) : whisper.merged_vtt[j].kind = "cue"
    /\ \A j \in CueLines :
         LET l == whisper.merged_vtt[j]
         IN /\ ShiftedBy(l.start, l.cue.start, whisper.boundaries[l.path].start)
            /\ ShiftedBy(l.end, l.cue.end, whisper.boundaries[l.path].start)
            /\ \E q \in 1..Len(whisper.requests) : whisper.requests[q].path = l.path
    /\ \A j, k \in CueLines :
         j < k => whisper.merged_vtt[j].path < whisper.merged_vtt[k].path

\* The first chunk was not extracted, the second and third were transcribed
\* and their cues were merged.
C27_Witness ==
  /\ whisper.phase = "done"
  /\ Len(whisper.boundaries) = 3
  /\ Len(whisper.chunk_files) = 2
  /\ whisper.chunk_files[1].path = 2
  /\ Cardinality(CueLines) = 2

\* C28: when chunked transcription returns no whisper_chunk_<i>.wav is left,
\* whatever the outcome of extraction (a partial file of a failed extraction
\* included), of transcription and of merging.
C28_NoChunkFileLeft ==
  (whisper.phase = "done" /\ ~whisper.remove_failed) =>
    \A k \in DOMAIN whisper.file : ~whisper.file[k]

\* The windows whose analysis is running.
RunningAnalyses ==
  {k \in DOMAIN silence.thread : silence.thread[k] = "running"}

\* C30: at most max(1, silence_detect_parallel) silence analyses run at the
\* same time, every merged window is analysed exactly once, and detection
\* returns only after all analyses have finished.
C30_BoundedParallelAnalyses ==
  silence.phase # "idle" =>
    /\ Cardinality(RunningAnalyses)
         <= (IF silence.parallel_limit >= 1 THEN silence.parallel_limit ELSE 1)
    /\ \A k \in DOMAIN silence.thread : silence.analyses[k] <= 1
    /\ silence.phase = "done" =>
         \A k \in DOMAIN silence.thread :
           /\ silence.analyses[k] = 1
           /\ silence.thread[k] \in {"finished", "panicked"}

\* Two analyses run under a limit of two while a third window waits for the
\* next batch.
C30_Witness ==
  /\ silence.phase # "idle"
  /\ silence.parallel_limit = 2
  /\ Len(silence.thread) = 3
  /\ Cardinality(RunningAnalyses) = 2
  /\ silence.thread[3] = "unspawned"

\* The sprite tasks whose ffmpeg is running.
RunningSprites ==
  {k \in DOMAIN sprite.task : sprite.task[k] = "running"}

\* The sprite tasks that hold a permit.
PermitHolders ==
  {k \in DOMAIN sprite.task : sprite.task[k] \in {"running", "exited"}}

\* Sprite task k waits for a permit.
Acquiring(k) ==
  sprite.phase # "idle" /\ k \in DOMAIN sprite.task /\ sprite.task[k] = "acquiring"

\* C31: at most max(1, parallel_limit) sprite processes run at the same time,
\* each holding one permit while it runs; previews.vtt is written only after
\* every sprite task has finished; and every sprite task eventually gets a
\* permit.
C31_SpritesUnderSemaphore ==
  /\ [](sprite.phase # "idle" =>
          /\ Cardinality(RunningSprites)
               <= (IF sprite.parallel_limit >= 1 THEN sprite.parallel_limit ELSE 1)
          /\ sprite.permits + Cardinality(PermitHolders)
               = (IF sprite.parallel_limit >= 1 THEN sprite.parallel_limit ELSE 1)
          /\ sprite.permits >= 0
          /\ (sprite.phase \in {"cues", "done"} =>
                \A k \in DOMAIN sprite.task : sprite.task[k] = "done"))
  /\ \A k \in UNION {0..(NumThumbnails(d, interval) - 1) :
                        d \in SpriteDurations, interval \in SpriteIntervals} :
       Acquiring(k) ~> ~Acquiring(k)

\* Two sprite processes run under a limit of two while a third task waits
\* for a permit.
C31_Witness ==
  /\ sprite.phase # "idle"
  /\ sprite.parallel_limit = 2
  /\ Cardinality(RunningSprites) = 2
  /\ \E k \in DOMAIN sprite.task : sprite.task[k] = "acquiring"

\* ceil(duration / interval), the claimed number of cues.
ClaimedCues == CeilDiv(sprite.duration, sprite.interval_seconds)

\* A printed timestamp is the time t, in microseconds, cut to the millisecond.
PrintedAs(stamp, t) ==
  /\ Millis(stamp) * 1000 <= t
  /\ t < (Millis(stamp) + 1) * 1000

\* C36: for duration > 0 previews.vtt has ceil(duration / interval) cues; cue
\* i starts at i x interval and ends at min((i+1) x interval, duration) with
\* start < end; it points at sprite file i div max_per_sprite, at column
\* (i mod max_per_sprite) mod sprites_across and row (i mod max_per_sprite)
\* div sprites_across; the file index is below the number of sprite files and
\* the row is below the rows tiled in that file.
C36_PreviewCues ==
  (sprite.phase = "done" /\ sprite.written /\ sprite.duration > 0) =>
    /\ Len(sprite.vtt_cues) = ClaimedCues
    /\ \A j \in 1..Len(sprite.vtt_cues) :
         LET i == j - 1
             cue == sprite.vtt_cues[j]
             local == i % sprite.max_sprites_per_file
         IN /\ PrintedAs(cue.start, i * sprite.interval_seconds)
            /\ PrintedAs(cue.end,
                         IF (i + 1) * sprite.interval_seconds <= sprite.duration
                         THEN (i + 1) * sprite.interval_seconds
                         ELSE sprite.duration)
            /\ Millis(cue.start) < Millis(cue.end)
            /\ cue.sprite_idx = i \div sprite.max_sprites_per_file
            /\ cue.x = (local % sprite.sprites_across) * cue.width
            /\ cue.y = (local \div sprite.sprites_across) * cue.height
            /\ cue.sprite_idx < sprite.num_sprite_files
            /\ local \div sprite.sprites_across < sprite.rows[cue.sprite_idx]

\* The line of the k-th audio AdaptationSet of the manifest file.
AudioSetLine(k) ==
  CHOOSE j \in AudioSetLines :
    Cardinality({i \in AudioSetLines : i <= j}) = k

\* The values of the <Role> elements directly under the <Label> of the k-th
\* audio AdaptationSet.
RolesOf(k) ==
  LET j == AudioSetLine(k) + 2
  IN IF j <= Len(mpd.file) /\ mpd.file[j].tag = "<Role"
     THEN {mpd.file[j].text} ELSE {}

\* The <Role> lines of the manifest file with value main.
MainRoleLines ==
  {j \in 1..Len(mpd.file) :
     mpd.file[j].tag = "<Role" /\ mpd.file[j].text = <<"main">>}

OutputCues == parse_vtt_cues(translate.output)

\* The text the service answered for cue j: the content without its
\* preamble, empty when the request failed.
AnsweredText(j) ==
  LET r == translate.responses[j]
  IN IF r.kind # "content" \/ r.content = <<>> THEN <<>>
     ELSE IF ~r.content[1].colon THEN r.content
     ELSE IF Len(r.content) = 1 THEN <<>>
     ELSE <<[r.content[2] EXCEPT !.marker = FALSE]>>

\* C33: a translated subtitle file has as many cues as were parsed from its
\* source, in the same order and with the same timestamps; the text of a cue
\* is the translation when the request succeeded with a non-empty result and
\* the original text otherwise.
C33_TranslationKeepsCues ==
  (translate.phase = "done" /\ translate.written) =>
    /\ Len(OutputCues) = Len(translate.cues)
    /\ \A j \in 1..Len(OutputCues) :
         /\ j <= Len(translate.cues)
         /\ OutputCues[j].start = translate.cues[j].start
         /\ OutputCues[j].end = translate.cues[j].end
         /\ OutputCues[j].text =
              IF AnsweredText(j) # <<>> THEN AnsweredText(j)
              ELSE translate.cues[j].text

\* A file of three cues was written: the first request failed, the second
\* was answered with a translation, the third with a preamble alone.
C33_Witness ==
  /\ translate.phase = "done"
  /\ translate.written
  /\ Len(translate.cues) = 3
  /\ translate.responses[1].kind = "send_err"
  /\ translate.responses[2].kind = "content"
  /\ translate.responses[2].content # <<>>
  /\ ~translate.responses[2].content[1].colon
  /\ translate.responses[3].kind = "content"
  /\ Len(translate.responses[3].content) = 1
  /\ translate.responses[3].content[1].colon
  /\ Len(OutputCues) = 3

\* The names given to the streams before stream k.
EarlierNames(k) == {subs.outputs[j].final_name : j \in 1..(k - 1)}

\* base_<n>
Suffixed(base, n) == Append(base, "_" \o ToString(n))

\* C34: the names chosen for the subtitle streams of one extraction are not
\* empty and pairwise distinct, for every combination of language tags and
\* titles; a name already in use is replaced by base_<n> with the smallest
\* n >= 1 that is not in use.
C34_NamesDistinct ==
  subs.phase # "idle" =>
    \A k \in 1..Len(subs.outputs) :
      LET o == subs.outputs[k]
      IN /\ o.final_name # <<>>
         /\ \A j \in 1..Len(subs.outputs) :
              subs.outputs[j].final_name = o.final_name => j = k
         /\ IF o.base_name # <<>> /\ o.base_name \notin EarlierNames(k)
            THEN o.final_name = o.base_name
            ELSE \E n \in 1..(MaxStreams + 2) :
                   /\ o.final_name = Suffixed(o.base_name, n)
                   /\ \A m \in 1..(n - 1) :
                        Suffixed(o.base_name, m) \in EarlierNames(k)

\* Three streams tagged en, eng and en-1 were named with translation
\* configured: en, en_1 and en_1_1.
C34_Witness ==
  /\ subs.phase # "idle"
  /\ subs.translation_enabled
  /\ Len(subs.outputs) = 3
  /\ subs.outputs[1].final_name = <<"en">>
  /\ subs.outputs[2].final_name = <<"en", "_1">>
  /\ subs.outputs[3].final_name = <<"en", "_1", "_1">>

AtLeast2K ==
  ladder.in.original_width * ladder.in.original_height
    >= ladder.in.threshold_2k_pixels

\* C37 as stated: the ladder has at most min(length of quality_steps,
\* max_resolution_steps) entries, at most max_resolution_steps - 1 when the
\* source area is below threshold_2k_pixels, and the 2K bonus is added to the
\* audio bitrate exactly when the source area is at least the threshold.
C37_Original ==
  ladder.phase = "done" =>
    /\ Len(ladder.outputs)
         <= Min(Len(ladder.in.quality_steps), ladder.in.max_resolution_steps)
    /\ ~AtLeast2K => Len(ladder.outputs) <= ladder.in.max_resolution_steps - 1
    /\ ladder.bonus_added <=> AtLeast2K

\* C37 amended: the ladder has at most min(length of quality_steps,
\* max_resolution_steps) entries, at most max(max_resolution_steps - 1, 0)
\* below the threshold, and the 2K bonus is added exactly when the source
\* area is at least the threshold or max_resolution_steps is 0.
C37_Amended ==
  ladder.phase = "done" =>
    /\ Len(ladder.outputs)
         <= Min(Len(ladder.in.quality_steps), ladder.in.max_resolution_steps)
    /\ ~AtLeast2K =>
         Len(ladder.outputs) <= (IF ladder.in.max_resolution_steps >= 1
                                 THEN ladder.in.max_resolution_steps - 1
                                 ELSE 0)
    /\ ladder.bonus_added <=>
         (AtLeast2K \/ ladder.in.max_resolution_steps = 0)

\* A source below the threshold with two configured steps: one entry and no
\* bonus.
C37_Witness ==
  /\ ladder.phase = "done"
  /\ ~AtLeast2K
  /\ ladder.in.max_resolution_steps = 2
  /\ Len(ladder.in.quality_steps) = 2
  /\ Len(ladder.outputs) = 1
  /\ ~ladder.bonus_added

\* An ffmpeg command that sets the rate of its output: the -r option or a
\* fps filter.  Without either the output keeps the rate of the source.
LimitsRate(cmd) == "-r" \in cmd.options \/ "fps" \in cmd.filters

\* C38: every ladder-step encode command limits the output frame rate to
\* min(source fps, fps_cap), so a source above fps_cap is not encoded at its
\* own rate.
C38_FrameRateCapped ==
  encode.phase # "idle" =>
    \A k \in 1..Len(encode.commands) :
      encode.avg_frame_rate.num > encode.fps_cap * encode.avg_frame_rate.den
        => LimitsRate(encode.commands[k])

\* C39: compute_split_points terminates for every duration, silence list and
\* positive target_chunk_secs and max_chunk_secs, also when the maximum is
\* below the target or the target is below 60 seconds: every iteration that
\* goes round the loop again leaves current_pos strictly greater, the split
\* points are strictly increasing and lie strictly between 0 and the
\* duration, and the loop returns.
C39_SplitPointsTerminate ==
  /\ [][(/\ chunks.phase = "loop"
          /\ chunks'.phase = "loop"
          /\ chunks'.iterations # chunks.iterations)
        => chunks'.current_pos > chunks.current_pos]_vars
  /\ [](chunks.phase # "idle" =>
          \A k \in 1..Len(chunks.split_points) :
            /\ chunks.split_points[k] > 0
            /\ chunks.split_points[k] < chunks.duration
            /\ k > 1 => chunks.split_points[k] > chunks.split_points[k - 1])
  /\ (chunks.phase = "loop" ~> chunks.phase # "loop")
\* A call with a target below 60 seconds and a maximum below the target has
\* returned several split points.
C39_Witness ==
  /\ chunks.phase = "done"
  /\ chunks.target_secs < SearchMargin
  /\ chunks.max_secs < chunks.target_secs
  /\ Len(chunks.split_points) >= 3
\* C40: within one concept no two arms or tasks that run at the same time
\* write, rename or delete the same path, the paths of the subtitle arm, the
\* chapter arm and the transcode arm are pairwise disjoint, and the raw upload
\* is untouched while any of them runs.
RunningUnits == {u \in DOMAIN paths.status : paths.status[u] = "running"}
ArmPaths(name) ==
  UNION {Touches(paths, u) :
           u \in {v \in DOMAIN paths.status :
                    IF name = "transcode"
                    THEN StageOf(v) # "join" ELSE v[1] = name}}
C40_NoSharedPath ==
  paths.phase \in {"join", "joined"} =>
    /\ \A u, v \in RunningUnits :
         u # v => Touches(paths, u) \cap Touches(paths, v) = {}
    /\ ArmPaths("subs") \cap ArmPaths("chapters") = {}
    /\ ArmPaths("subs") \cap ArmPaths("transcode") = {}
    /\ ArmPaths("chapters") \cap ArmPaths("transcode") = {}
    /\ \A u \in RunningUnits : RawUpload \notin Touches(paths, u)
    /\ RunningUnits # {} => paths.raw
====
